---- MODULE Spec2Model ----
(***************************************************************************)
(* A model of the numeric equation-solving engine of MathSolver            *)
(* (src/server/service/mathService.ts).                                    *)
(*                                                                         *)
(* Texts are sequences of one-character strings.  Fixed message fragments  *)
(* of the source that are never taken apart are kept as single tokens, so  *)
(* a message is a sequence of tokens.                                      *)
(*                                                                         *)
(* Numbers.  A JavaScript number is modelled as a record [n, d, e]: the    *)
(* rational n/d in lowest terms plus a drift e, the sign of the rounding   *)
(* error a loop variable has accumulated by repeated floating-point        *)
(* addition (x += 0.01 never lands exactly on a multiple of 0.01).  The    *)
(* drift is far below the tolerance 1e-5 and below the rounding quantum of *)
(* toFixed, so arithmetic and comparison against the tolerance read only   *)
(* n/d; the drift decides comparisons between numbers whose rational parts *)
(* are equal (the loop guard x <= 10 at the end point) and ties in         *)
(* toFixed.  The drift of each loop value is a nondeterministic choice.    *)
(*                                                                         *)
(* The expression evaluator (mathjs, an external library) is modelled on   *)
(* the fragment: decimal literals, symbols, unary and binary + and -,      *)
(* binary *, ^ with a literal exponent, parentheses, blanks.  Texts        *)
(* outside the fragment are not evaluated by any input of the model (see   *)
(* EvaluatedInFragment).  The one evaluator instance of the module has an  *)
(* option, predictable, that decides the power of a negative base; it is   *)
(* state of the model, and a run is a sequence of calls on the module.     *)
(***************************************************************************)
EXTENDS Integers, Sequences, FiniteSets, TLC

(***************************************************************************)
(* Characters and texts                                                    *)
(***************************************************************************)
Letters ==
  {"a","b","c","d","e","f","g","h","i","j","k","l","m","n","o","p","q","r",
   "s","t","u","v","w","x","y","z",
   "A","B","C","D","E","F","G","H","I","J","K","L","M","N","O","P","Q","R",
   "S","T","U","V","W","X","Y","Z"}

Digits == {"0","1","2","3","4","5","6","7","8","9"}

Whitespace == {" ", "\n", "\t"}

DigitVal(c) ==
  CASE c = "0" -> 0 [] c = "1" -> 1 [] c = "2" -> 2 [] c = "3" -> 3
    [] c = "4" -> 4 [] c = "5" -> 5 [] c = "6" -> 6 [] c = "7" -> 7
    [] c = "8" -> 8 [] c = "9" -> 9

DigitChar(v) ==
  CASE v = 0 -> "0" [] v = 1 -> "1" [] v = 2 -> "2" [] v = 3 -> "3"
    [] v = 4 -> "4" [] v = 5 -> "5" [] v = 6 -> "6" [] v = 7 -> "7"
    [] v = 8 -> "8" [] v = 9 -> "9"

Contains(s, c) == \E p \in 1..Len(s) : s[p] = c

\* String.prototype.split on a set of one-character separators: k separators
\* give k+1 parts, empty parts included.
RECURSIVE Split(_, _)
Split(s, seps) ==
  IF \A p \in 1..Len(s) : s[p] \notin seps
  THEN <<s>>
  ELSE LET p == CHOOSE q \in 1..Len(s) :
                  s[q] \in seps /\ \A r \in 1..(q-1) : s[r] \notin seps
       IN <<SubSeq(s, 1, p-1)>> \o Split(SubSeq(s, p+1, Len(s)), seps)

\* String.prototype.trim
RECURSIVE TrimLeft(_)
TrimLeft(s) ==
  IF s # <<>> /\ Head(s) \in Whitespace THEN TrimLeft(Tail(s)) ELSE s

RECURSIVE TrimRight(_)
TrimRight(s) ==
  IF s # <<>> /\ s[Len(s)] \in Whitespace
  THEN TrimRight(SubSeq(s, 1, Len(s)-1)) ELSE s

Trim(s) == TrimRight(TrimLeft(s))

\* Array.prototype.join
RECURSIVE Join(_, _)
Join(parts, sep) ==
  IF parts = <<>> THEN <<>>
  ELSE IF Len(parts) = 1 THEN parts[1]
  ELSE parts[1] \o sep \o Join(Tail(parts), sep)

\* Array.from(new Set(a)): duplicates removed, order of first appearance kept.
RECURSIVE Distinct(_)
Distinct(a) ==
  IF a = <<>> THEN <<>>
  ELSE LET init == Distinct(SubSeq(a, 1, Len(a)-1))
           last == a[Len(a)]
       IN IF \E p \in 1..Len(init) : init[p] = last
          THEN init ELSE Append(init, last)

IsLetter(c) == c \in Letters

\* text.match(/[a-zA-Z]/g) || []
MatchLetters(s) == SelectSeq(s, IsLetter)

(***************************************************************************)
(* Numbers                                                                 *)
(***************************************************************************)
Abs(v) == IF v < 0 THEN -v ELSE v

RECURSIVE GCD(_, _)
GCD(a, b) == IF b = 0 THEN a ELSE GCD(b, a % b)

\* The number n/d (d > 0) in lowest terms, with drift e.
Float(n, d, e) ==
  LET g == GCD(Abs(n), d)
  IN IF n = 0 THEN [n |-> 0, d |-> 1, e |-> e]
     ELSE [n |-> n \div g, d |-> d \div g, e |-> e]

Num(n, d) == Float(n, d, 0)

Undefined == [undefined |-> TRUE]
NaN == [nan |-> TRUE]
\* A Complex object of mathjs with a non-zero imaginary part.
Complex == [complex |-> TRUE]
\* A number the model does not compute (an irrational power).
Unmodelled == [unmodelled |-> TRUE]

IsNum(v) == DOMAIN v = {"n", "d", "e"}

\* Sum and difference over the least common denominator (no product that
\* could leave 32 bits on the inputs of the model).
Add(a, b) ==
  Num(a.n * (b.d \div GCD(a.d, b.d)) + b.n * (a.d \div GCD(a.d, b.d)),
      (a.d \div GCD(a.d, b.d)) * b.d)
Sub(a, b) ==
  Num(a.n * (b.d \div GCD(a.d, b.d)) - b.n * (a.d \div GCD(a.d, b.d)),
      (a.d \div GCD(a.d, b.d)) * b.d)
Mul(a, b) == Num(a.n * b.n, a.d * b.d)
Neg(a) == Num(-a.n, a.d)

\* ToNumber of JavaScript on the values of the evaluator: undefined gives NaN;
\* a Complex object gives 0 (its valueOf returns null unless it is real).
Coerced(v) ==
  IF IsNum(v) THEN v
  ELSE IF v = Complex THEN Num(0, 1)
  ELSE IF v = Unmodelled THEN Unmodelled
  ELSE NaN

\* The JavaScript operator a - b of the source, on the coerced operands: NaN
\* unless both are numbers.
Minus(a, b) ==
  IF IsNum(Coerced(a)) /\ IsNum(Coerced(b)) THEN Sub(Coerced(a), Coerced(b))
  ELSE IF Coerced(a) = Unmodelled \/ Coerced(b) = Unmodelled THEN Unmodelled
  ELSE NaN

\* 1 / 0.00001: the tolerance of the source is 1 / ToleranceInv.
ToleranceInv == 100000

\* Mutant of WithinTolerance: a tolerance of 0.1.
WithinToleranceLoose(v) ==
  IsNum(v) /\ Abs(v.n) <= (v.d - 1) \div 10

\* Math.abs(v) < 0.00001; false for NaN.  |n|/d < 1/T iff |n|*T < d iff
\* |n| <= (d-1) div T (no product that could leave 32 bits).
WithinTolerance(v) ==
  IsNum(v) /\ Abs(v.n) <= (v.d - 1) \div ToleranceInv

\* a <= b on numbers: by rational part, and by drift when those are equal.
LessEq(a, b) ==
  \/ a.n * b.d < b.n * a.d
  \/ a.n * b.d = b.n * a.d /\ a.e <= b.e

(***************************************************************************)
(* The expression evaluator: math.evaluate(text, scope)                    *)
(***************************************************************************)
Blanks == {" ", "\t"}

NotBlank(c) == c \notin Blanks

Threw == [ok |-> FALSE]
Value(v) == [ok |-> TRUE, val |-> v]

RECURSIVE Pow10(_)
Pow10(k) == IF k = 0 THEN 1 ELSE 10 * Pow10(k - 1)

RECURSIVE DigitsVal(_)
DigitsVal(s) ==
  IF s = <<>> THEN 0
  ELSE 10 * DigitsVal(SubSeq(s, 1, Len(s)-1)) + DigitVal(s[Len(s)])

\* digits, or digits "." digits
IsLiteral(s) ==
  /\ s # <<>>
  /\ \A p \in 1..Len(s) : s[p] \in Digits \cup {"."}
  /\ Cardinality({p \in 1..Len(s) : s[p] = "."}) <= 1
  /\ s[1] # "." /\ s[Len(s)] # "."

LiteralVal(s) ==
  IF Contains(s, ".")
  THEN LET p == CHOOSE q \in 1..Len(s) : s[q] = "."
           frac == SubSeq(s, p+1, Len(s))
       IN Num(DigitsVal(SubSeq(s, 1, p-1)) * Pow10(Len(frac)) + DigitsVal(frac),
              Pow10(Len(frac)))
  ELSE Num(DigitsVal(s), 1)

\* The configuration of the evaluator instance of the module (const math =
\* create(all)): its option predictable.
VARIABLE predictable

\* pow(a, b) of mathjs on numbers.  A natural exponent gives the exact power.
\* A negative base with an exponent that is a fraction of even denominator
\* gives NaN when the option predictable is set, and a Complex otherwise.
RECURSIVE IntPow(_, _)
IntPow(a, k) == IF k = 0 THEN Num(1, 1) ELSE Mul(a, IntPow(a, k - 1))

Pow(a, b) ==
  IF b.d = 1 /\ b.n >= 0 THEN IntPow(a, b.n)
  ELSE IF b.d % 2 = 0 /\ b.n > 0 /\ a.n < 0
       THEN (IF predictable THEN NaN ELSE Complex)
  ELSE IF b.d # 1 /\ b.n > 0 /\ a.n = 0 THEN Num(0, 1)
  ELSE Unmodelled

\* An arithmetic operator of mathjs on two results: on numbers the operation;
\* an operand that is no number gives no number.
Arith(op, a, b) ==
  IF Unmodelled \in {a, b} THEN Unmodelled
  ELSE IF Complex \in {a, b} THEN Complex
  ELSE IF ~IsNum(a) \/ ~IsNum(b) THEN NaN
  ELSE IF op = "+" THEN Add(a, b)
  ELSE IF op = "-" THEN Sub(a, b)
  ELSE IF op = "*" THEN Mul(a, b)
  ELSE Pow(a, b)

\* The outcome of an operator on the outcomes of its operands; without an
\* operator (op = "") the right operand is the whole text.
Binary(op, l, r) ==
  IF op = "" THEN r
  ELSE IF l.ok /\ r.ok THEN Value(Arith(op, l.val, r.val))
  ELSE Threw

\* The outcome of a sign before an operand.
Signed(sign, r) ==
  IF r.ok /\ sign = "-" /\ IsNum(r.val) THEN Value(Neg(r.val)) ELSE r

\* The number of parentheses open before position p.
Depth(s, p) ==
  Cardinality({q \in 1..(p-1) : s[q] = "("})
    - Cardinality({q \in 1..(p-1) : s[q] = ")"})

\* The positions of s outside parentheses that hold a character of ops.
TopLevel(s, ops) ==
  {p \in 1..Len(s) : s[p] \in ops /\ (Contains(s, "(") => Depth(s, p) = 0)}

\* The first and the last of a set of positions, 0 if there is none.
FirstOf(ps) == IF ps = {} THEN 0 ELSE CHOOSE q \in ps : \A r \in ps : q <= r
LastOf(ps) == IF ps = {} THEN 0 ELSE CHOOSE q \in ps : \A r \in ps : r <= q

\* The operator at position p; none at position 0.
OpAt(s, p) == IF p = 0 THEN "" ELSE s[p]

RECURSIVE EvalAdd(_, _)

\* A number literal, a symbol looked up in the scope (an undefined symbol
\* throws), or an expression in parentheses.
EvalPrimary(s, scope) ==
  IF IsLiteral(s) THEN Value(LiteralVal(s))
  ELSE IF Len(s) = 1 /\ s[1] \in DOMAIN scope THEN Value(scope[s[1]])
  ELSE IF Len(s) >= 3 /\ s[1] = "(" /\ s[Len(s)] = ")"
          /\ Depth(s, Len(s)) = 1
          /\ \A p \in 2..Len(s) : Depth(s, p) >= 1
  THEN EvalAdd(SubSeq(s, 2, Len(s) - 1), scope)
  ELSE Threw

RECURSIVE EvalUnary(_, _)

\* base ^ exponent, split at position p, the first ^ outside parentheses
\* (right associativity); the exponent may carry a sign.  Without a ^ the
\* text is a primary.
EvalPowAt(s, scope, p) ==
  IF p = 0 THEN EvalPrimary(s, scope)
  ELSE Binary("^", EvalPrimary(SubSeq(s, 1, p-1), scope),
              EvalUnary(SubSeq(s, p+1, Len(s)), scope))

EvalPow(s, scope) == EvalPowAt(s, scope, FirstOf(TopLevel(s, {"^"})))

EvalUnary(s, scope) ==
  IF s = <<>> THEN Threw
  ELSE IF s[1] \in {"-", "+"} THEN Signed(s[1], EvalUnary(Tail(s), scope))
  ELSE EvalPow(s, scope)

\* The last * outside parentheses, at position p, splits the text (left
\* associativity); a text of one character holds no operator.
RECURSIVE EvalMul(_, _)
EvalMulAt(s, scope, p) ==
  Binary(OpAt(s, p),
         IF p = 0 THEN Threw ELSE EvalMul(SubSeq(s, 1, p-1), scope),
         EvalUnary(SubSeq(s, p+1, Len(s)), scope))

EvalMul(s, scope) ==
  IF Len(s) = 1 THEN EvalPrimary(s, scope)
  ELSE EvalMulAt(s, scope, LastOf(TopLevel(s, {"*"})))

\* The positions of the binary + and - outside parentheses: a sign that
\* follows an operator or an opening parenthesis, or starts the text, is
\* unary.
BinarySigns(s) ==
  {p \in TopLevel(s, {"+", "-"}) :
     p > 1 /\ s[p-1] \notin {"+", "-", "*", "^", "("}}

\* The last binary + or - outside parentheses, at position p, splits the
\* text (left associativity).
EvalAddAt(s, scope, p) ==
  Binary(OpAt(s, p),
         IF p = 0 THEN Threw ELSE EvalAdd(SubSeq(s, 1, p-1), scope),
         EvalMul(SubSeq(s, p+1, Len(s)), scope))

EvalAdd(s, scope) ==
  IF Len(s) = 1 THEN EvalPrimary(s, scope)
  ELSE EvalAddAt(s, scope, LastOf(BinarySigns(s)))

\* math.evaluate(text, scope): blanks are skipped; the empty expression
\* evaluates to undefined; a syntax error or an undefined symbol throws.
Evaluate(s, scope) ==
  LET t == SelectSeq(s, NotBlank)
  IN IF t = <<>> THEN Value(Undefined) ELSE EvalAdd(t, scope)

\* The first '=' of the text is an assignment to something that is no
\* symbol: mathjs rejects the text, whatever else it holds.
BadAssignment(t) ==
  \E p \in 1..Len(t) :
    /\ t[p] = "="
    /\ \A q \in 1..(p-1) : t[q] # "=" /\ t[q] \notin Letters
    /\ p < Len(t) => t[p+1] # "="

\* The literal that starts at position p of the text.
RECURSIVE LiteralFrom(_, _)
LiteralFrom(t, p) ==
  IF p > Len(t) \/ t[p] \notin Digits \cup {"."} THEN <<>>
  ELSE <<t[p]>> \o LiteralFrom(t, p + 1)

\* The text before position p ends with a negative literal in parentheses.
NegativeLiteralBefore(t, p) ==
  \E q \in 1..(p-4) :
    /\ t[q] = "(" /\ t[q+1] = "-" /\ t[p-1] = ")"
    /\ IsLiteral(SubSeq(t, q+2, p-2))

\* The texts on which Evaluate models mathjs.  Either the text is a bad
\* assignment, or: it holds the characters of the fragment only, no blank
\* inside; letters and digits are never adjacent and no operand stands next
\* to a parenthesis (no implicit multiplication); dots stand inside literals;
\* no symbol is outside names (mathjs predefines e, E and i; any other single
\* letter is undefined unless the scope binds it); an exponent is a literal,
\* and one with a fraction has an even denominator in lowest terms and a
\* negative literal in parentheses as base.
InFragment(s, names) ==
  LET t == Trim(s)
      operands == Digits \cup names \cup {"."}
  IN \/ BadAssignment(t)
     \/ /\ \A p \in 1..Len(t) :
             t[p] \in Digits \cup {"+", "-", "*", ".", "^", "(", ")"} \cup names
        /\ \A p \in 1..(Len(t)-1) :
             /\ ~(t[p] \in names /\ t[p+1] \in operands)
             /\ ~(t[p] \in Digits \cup {"."} /\ t[p+1] \in names)
             /\ ~(t[p] \in operands \cup {")"} /\ t[p+1] = "(")
             /\ ~(t[p] = ")" /\ t[p+1] \in operands)
        /\ \A p \in 1..Len(t) : t[p] = "." =>
             /\ p > 1 /\ p < Len(t)
             /\ t[p-1] \in Digits /\ t[p+1] \in Digits
        /\ \A p \in 1..Len(t), q \in 1..Len(t) :
             (p < q /\ t[p] = "." /\ t[q] = ".") =>
                \E r \in (p+1)..(q-1) : t[r] \notin Digits
        /\ \A p \in 1..Len(t) : t[p] = "^" =>
             /\ IsLiteral(LiteralFrom(t, p + 1))
             /\ Contains(LiteralFrom(t, p + 1), ".") =>
                  /\ NegativeLiteralBefore(t, p)
                  /\ LiteralVal(LiteralFrom(t, p + 1)).d % 2 = 0


(***************************************************************************)
(* Number formatting                                                       *)
(***************************************************************************)
RECURSIVE NatToText(_)
NatToText(v) ==
  IF v < 10 THEN <<DigitChar(v)>>
  ELSE Append(NatToText(v \div 10), DigitChar(v % 10))

RECURSIVE PadLeft(_, _)
PadLeft(s, len) == IF Len(s) >= len THEN s ELSE PadLeft(<<"0">> \o s, len)

\* Number.prototype.toFixed(digits): the decimal text of the nearest multiple
\* of 10^-digits; of two nearest the larger in magnitude, where the drift
\* says on which side of an exact tie the number lies.
ToFixed(v, digits) ==
  LET neg == v.n < 0 \/ (v.n = 0 /\ v.e < 0)
      e == IF neg THEN -v.e ELSE v.e
      scaled == Abs(v.n) * Pow10(digits)
      m == scaled \div v.d
      r == scaled % v.d
      up == 2 * r > v.d \/ (2 * r = v.d /\ e >= 0)
      txt == PadLeft(NatToText(IF up THEN m + 1 ELSE m), digits + 1)
      cut == Len(txt) - digits
  IN (IF neg THEN <<"-">> ELSE <<>>)
       \o SubSeq(txt, 1, cut)
       \o (IF digits > 0 THEN <<".">> \o SubSeq(txt, cut + 1, Len(txt))
           ELSE <<>>)

\* Number(text) on the output of toFixed: an optional sign and a literal.
ToNumber(s) ==
  IF s # <<>> /\ s[1] = "-" THEN Neg(LiteralVal(Tail(s))) ELSE LiteralVal(s)

\* The most fraction digits Number.prototype.toString writes for a double
\* below 1 (a repeating expansion is cut there).
MaxFractionDigits == 16

RECURSIVE FractionText(_, _, _)
FractionText(r, d, left) ==
  IF r = 0 \/ left = 0 THEN <<>>
  ELSE <<DigitChar((10 * r) \div d)>> \o FractionText((10 * r) % d, d, left - 1)

\* String(v) as the template literals of the source compute it: the shortest
\* decimal text of the number; "undefined" and "NaN" for those values.  A
\* number carrying drift is not a short decimal: its text ends in the digits
\* of the rounding error, written here as one token.
NumberToString(v) ==
  IF v = Undefined THEN <<"undefined">>
  ELSE IF v = NaN THEN <<"NaN">>
  ELSE IF v = Complex THEN <<"<complex>">>
  ELSE IF v = Unmodelled THEN <<"<unmodelled>">>
  ELSE LET a == Abs(v.n)
           frac == FractionText(a % v.d, v.d, MaxFractionDigits)
       IN (IF v.n < 0 THEN <<"-">> ELSE <<>>)
            \o NatToText(a \div v.d)
            \o (IF frac # <<>> THEN <<".">> \o frac ELSE <<>>)
            \o (IF v.e # 0 THEN <<"<rounding error>">> ELSE <<>>)

(***************************************************************************)
(* findVariables                                                           *)
(***************************************************************************)
\* The names the source lists as common functions; each a text.
commonFunctions ==
  { <<"s","i","n">>, <<"c","o","s">>, <<"t","a","n">>, <<"l","o","g">>,
    <<"l","n">>, <<"s","q","r","t">> }

\* commonFunctions.includes(v) for a matched letter v: v is compared, as a
\* text of one character, with each function name.
NotCommonFunction(v) == <<v>> \notin commonFunctions

findVariables(expression) ==
  SelectSeq(Distinct(MatchLetters(expression)), NotCommonFunction)

(***************************************************************************)
(* Constants of the searches                                               *)
(***************************************************************************)
\* Mutant of IntMin: the loop starts one late.
IntMinLate == 1 - 1000

IntMin == -1000
\* Mutant of IntMax: the integer loop ends at 2.
IntMaxEarly == 1000 - 998

IntMax == 1000
NumeratorMax == 20
\* Mutant of DenominatorMin: halves are skipped.
DenominatorMinLate == 2 + 1

DenominatorMin == 2
DenominatorMax == 20
DecimalMin == -10
DecimalMax == 10
\* the decimal step 0.01 is 1 / DecimalStepInv
DecimalStepInv == 100
DecimalDigits == 4

\* The rounding error a loop value may carry: below, none, above.
Drift == {-1, 0, 1}

Null == [null |-> TRUE]

(***************************************************************************)
(* Inputs                                                                  *)
(***************************************************************************)
\* Largest coefficient of the generated equations a*x+b=c.
MaxCoef == 2

LinearEquations ==
  { <<DigitChar(a), "*", "x", "+", DigitChar(b), "=", DigitChar(c)>> :
      a \in 0..MaxCoef, b \in 0..1, c \in 0..MaxCoef }

Samples ==
  { <<"5","*","x","+","1","0","=","2","5">>,       \* integer stage: 3
    <<"2","*","x","=","1">>,                       \* rational stage: 1/2
    <<"x","+","x","=","7">>,                       \* rational stage: 7/2
    <<"3","*","x","=","-","2">>,                   \* rational stage: -2/3
    <<"2","5","*","x","=","3">>,                   \* decimal stage: 0.12
    <<"x","*","5","0","=","-","4","9","9">>,       \* decimal stage: -9.98
    <<"x","*","x","=","2">>,                       \* no stage matches
    <<" ","x","-","1","0","0","0"," ","=","0"," ">>,  \* last integer
    <<"x","+","=","3">>,                           \* the evaluator throws
    <<"=","x">>,                                   \* an empty side
    <<"2","+","2","=","4">>, <<"2","+","2","=","5">>,
    <<"0",".","0","0","0","0","1","=","0">>,       \* difference 1e-5
    <<"0",".","0","0","0","0","0","9","=","0">>,   \* difference 9e-6
    <<"2","+","=","2">>,                           \* the evaluator throws
    <<"=","4">>,                                   \* an empty side, no unknown
    <<"4","*","x","*","x","=","1">>,               \* 1/2 and -1/2
    <<"1","5","*","x","*","x","+","2","=","1","3","*","x">>,  \* 1/5 and 2/3
    <<"x","+","x","=","1","1">>,                   \* 11/2
    <<"x","+","y","=","5">>, <<"x","*","y","=","x">>,
    <<"s","q","r","t","(","x",")","=","2">>,
    <<"s","q","r","t","(","x",")","+","y","=","2">>,
    <<"x","=","1","=","1">>, <<"x","=","=","2">>, <<"=","=">> }

Systems ==
  { <<"x","+","y","=","1","0",";","x","-","y","=","2">>,     \* x = 6, y = 4
    <<"x","=","-","1","0","\n","y","=","-","1","0","\n">>,   \* the first point
    <<"x","+","y","+","z","=","-","2","9",";","y","=","-","1","0",";",
      "z","=","-","9">>,                                     \* three unknowns
    <<"x","=","y",";","x","=","y","+","1">>,                 \* no solution
    <<"a","+","b","+","c","+","d","=","0",";","a","=","b">>, \* four unknowns
    <<"x","*","x","=","4",";","y","=","x">>,                 \* two solutions
    <<"x","=","1",";","y">> }                                \* no '=' in one

\* Texts without '=', which solveMathProblem hands to evaluateExpression.
Plain ==
  { <<"2","+","3","*","4">>,
    <<"2","(","3","+","4",")">>,
    <<"(","-","4",")","^","0",".","5">> }

\* Equations whose sides hold powers and parentheses.
Powers ==
  { <<"x","^","2","=","4">>,
    <<"(","x","+","1",")","*","2","=","x">>,
    <<"(","-","4",")","^","0",".","5","=","0">>,
    <<"(","-","4",")","^","0",".","5","=","2">>,
    <<"(","-","2",")","^","2","=","4">> }

\* An equation whose solutions are the square roots of 2, with sides that
\* stay within the tolerance of each other near them.
SmallSides ==
  { <<"0",".","0","0","0","0","0","1","*","x","*","x","=",
      "0",".","0","0","0","0","0","2">> }

Inputs ==
  LinearEquations \cup Samples \cup Systems \cup Plain \cup Powers
    \cup SmallSides

\* The arguments of direct calls of evaluateExpression.
Expressions ==
  Plain \cup
  { <<"2","+","3","*","4","=","1","4">>,
    <<" ","7"," ","=","x">>,
    <<"1","=","=","1">>,
    <<"(","1","+","2",")","(","3",")">>,
    <<"2","^","3">>,
    <<>>,
    <<"=","5">>,
    <<"2","+">>,
    <<"2","+","3","=","5","\n">>,
    <<"1","=","2","\n","3">> }

\* The calls that may follow an earlier call, and be followed by one: a call
\* of each entry and path, each with a short search.
RepeatInputs ==
  { <<"evaluateExpression", <<"2","+","3","*","4">>>>,
    <<"solveMathProblem", <<"(","-","4",")","^","0",".","5","=","0">>>>,
    <<"solveMathProblem", <<"0","*","x","+","0","=","0">>>>,
    <<"solveMathProblem", <<"x","=","-","1","0","\n","y","=","-","1","0","\n">>>> }

\* The number of calls in a run.
MaxCalls == 3

(***************************************************************************)
(* State                                                                   *)
(***************************************************************************)
VARIABLES
  problemText,   \* the argument of solveMathProblem
  pc,            \* where the call stands
  leftSide, rightSide, variable,     \* the arguments of solveNumerically
  i,             \* the integer loop variable
  n, d,          \* the loop variables of the rational stage
  x,             \* the decimal loop variable (its rational part)
  solutions,     \* what solveNumerically returned: a number or Null
  equations,     \* the argument of solveSimultaneousEquations
  variables,     \* its unknowns
  gx, gy, gz,    \* its loop variables x, y, z (their rational parts)
  scope,         \* its scope: the values bound to the unknowns
  outcome,       \* what solveSimpleEquation returned or threw
  stage,         \* history: the stage that ended solveNumerically
  trial,         \* history: the trial value solveNumerically accepted
  called,        \* history: the helpers called so far in this call
  entry,         \* the function called: solveMathProblem or evaluateExpression
  calls,         \* the number of calls so far, this one included
  earlier        \* history: the first call of the run and its outcome

\* The state of openaiService.ts: the module's counters and the calls of
\* solveComplexMathProblem in flight.
VARIABLES
  usageCount,          \* let usageCount
  requestsThisMinute,  \* let requestsThisMinute
  minuteElapsed,       \* whether Date.now() - lastResetTime >= 60000
  apiCalls,            \* history: the calls of openai.chat.completions.create
                       \* this month, those before the module was loaded included
  request              \* each caller's call: where it stands, what it returned

quota == <<usageCount, requestsThisMinute, minuteElapsed, apiCalls, request>>

\* The state of the Home component: its five useState cells (stage is
\* homeStage here, result is homeResult) and its mutation.
VARIABLES
  homeStage,      \* 'upload' | 'preview' | 'processing' | 'result' | 'error'
  selectedFile,   \* File | null
  previewUrl,     \* the object URL of the preview, or ''
  error,          \* the message shown by ErrorDisplay, or ''
  homeResult,     \* MathResponse | null
  mutation,       \* processMutation: idle or pending
  urls            \* the object URLs created so far

home == <<homeStage, selectedFile, previewUrl, error, homeResult, mutation,
          urls>>

\* A request to POST /api/solve, or a direct call of solveMathProblem.
VARIABLES
  via,            \* "route" or "call", "none" before either
  rpc,            \* where the request stands
  ocrText,        \* result.data.text of the OCR worker
  extractedText,  \* const extractedText, the text cleaned up
  argument,       \* the arguments solveMathProblem was called with
  reached,        \* history: the function solveMathProblem answered with
  solution,       \* how solveMathProblem ended: a record, or it threw
  saves,          \* history: the calls of storage.saveMathProblem
  status          \* the status of the response, 0 before it is sent

pipeline == <<via, rpc, ocrText, extractedText, argument, reached, solution,
              saves, status>>

\* The state outside mathService.ts's two solvers.
outside == <<quota, home, pipeline>>

vars == <<problemText, pc, leftSide, rightSide, variable, i, n, d, x,
          solutions, equations, variables, gx, gy, gz, scope,
          outcome, stage, trial, called, predictable, entry, calls, earlier,
          outside>>

\* What a call leaves alone unless it configures the evaluator.
session == <<predictable, entry, calls, earlier>>

single == <<leftSide, rightSide, variable, i, n, d, x, solutions>>
grid == <<equations, variables, gx, gy, gz, scope>>

None == [none |-> TRUE]

\* The number of callers of solveComplexMathProblem.
MaxRequests == 2

\* No call of solveComplexMathProblem has been made.
NotCalled == [pc |-> "idle", outcome |-> None]

\* openaiService.ts is not in use.
QuotaIdle ==
  /\ usageCount = 0
  /\ requestsThisMinute = 0
  /\ minuteElapsed = FALSE
  /\ apiCalls = 0
  /\ request = [r \in 1..MaxRequests |-> NotCalled]

\* null, and the empty preview URL ''
NoFile == "<null>"
NoResult == "<null>"
NoUrl == <<>>

\* The Home component as mounted.
HomeMounted ==
  /\ homeStage = "upload"
  /\ selectedFile = NoFile
  /\ previewUrl = NoUrl
  /\ error = ""
  /\ homeResult = NoResult
  /\ mutation = "idle"
  /\ urls = 0

\* No arguments: solveMathProblem has not been called.
NoCall == [problemText |-> <<>>, imageBuffer |-> FALSE]

\* No request has been made.
PipelineIdle ==
  /\ via = "none"
  /\ rpc = "idle"
  /\ ocrText = <<>>
  /\ extractedText = <<>>
  /\ argument = NoCall
  /\ reached = "none"
  /\ solution = "none"
  /\ saves = 0
  /\ status = 0

OutsideIdle == QuotaIdle /\ HomeMounted /\ PipelineIdle

\* The first call, on the module as loaded: create(all) leaves the option
\* predictable at its default, false.
Init ==
  /\ \/ entry = "solveMathProblem" /\ problemText \in Inputs
     \/ entry = "evaluateExpression" /\ problemText \in Expressions
  /\ predictable = FALSE
  /\ calls = 1
  /\ earlier = None
  /\ pc = "call"
  /\ leftSide = <<>> /\ rightSide = <<>> /\ variable = ""
  /\ i = 0 /\ n = 0 /\ d = 0 /\ x = Num(0, 1)
  /\ solutions = Null
  /\ equations = <<>> /\ variables = <<>>
  /\ gx = Num(0, 1) /\ gy = Num(0, 1) /\ gz = Num(0, 1)
  /\ scope = <<>>
  /\ outcome = None
  /\ stage = "none"
  /\ trial = None
  /\ called = {}
  /\ OutsideIdle

(***************************************************************************)
(* solveSimpleEquation                                                     *)
(***************************************************************************)
Record(problem, answer, steps) ==
  [kind |-> "record", problem |-> problem, answer |-> answer, steps |-> steps]

Step(expression, explanation) ==
  [expression |-> expression, explanation |-> explanation]

\* throw new Error(message), seen through the catch of solveSimpleEquation,
\* which wraps the message.
Thrown(message) ==
  [kind |-> "error", message |-> <<"Could not solve equation: ">> \o message]

\* The message of an error thrown by the evaluator.
EvaluatorMessage == <<"<evaluator error>">>

NonEmpty(s) == s # <<>>

Equations(equation) ==
  LET pieces == Split(equation, {"\n", ";"})
  IN SelectSeq([p \in 1..Len(pieces) |-> Trim(pieces[p])], NonEmpty)

EqualityCheck(equation, left, right) ==
  LET leftValue == Evaluate(left, <<>>)
      rightValue == Evaluate(right, <<>>)
      isEqual == WithinTolerance(Minus(leftValue.val, rightValue.val))
  IN IF ~leftValue.ok \/ ~rightValue.ok THEN Thrown(EvaluatorMessage)
     ELSE Record(equation,
                 IF isEqual THEN <<"True">> ELSE <<"False">>,
                 << Step(equation, <<"Checking if the equality is true">>),
                    Step(left \o <<" = ">> \o NumberToString(leftValue.val),
                         <<"Left side evaluation">>),
                    Step(right \o <<" = ">> \o NumberToString(rightValue.val),
                         <<"Right side evaluation">>),
                    Step(IF isEqual THEN <<"The equality is true">>
                                    ELSE <<"The equality is false">>,
                         <<"Result of comparison">>) >>)

Finish(result, newCalls) ==
  /\ pc' = "done"
  /\ outcome' = result
  /\ called' = called \cup newCalls
  /\ UNCHANGED <<grid, problemText, leftSide, rightSide, variable, i, n, d, x,
                 solutions, stage, trial>>

\* Mutant of BadFormat: only too few parts are rejected.
BadFormatTooFew(parts) == Len(parts) < 2

\* parts.length !== 2
BadFormat(parts) == Len(parts) # 2

\* solveSimpleEquation up to the call of solveNumerically.
SolveSimpleEquation ==
  /\ UNCHANGED outside
  /\ pc = "call"
  /\ entry = "solveMathProblem"
  /\ UNCHANGED session
  /\ Contains(problemText, "=")
  /\ Len(Equations(problemText)) <= 1
  /\ LET parts == Split(problemText, {"="})
     IN IF BadFormat(parts)
        THEN Finish(Thrown(<<"Invalid equation format">>), {})
        ELSE
          LET left == Trim(parts[1])
              right == Trim(parts[2])
              found == findVariables(problemText)
          IN IF Len(found) = 0
             THEN Finish(EqualityCheck(problemText, left, right),
                         {"findVariables", "evaluate"})
             ELSE IF Len(found) > 1
             THEN Finish(Thrown(<<"Multiple variables found: ">>
                                  \o Join([p \in 1..Len(found) |->
                                             <<found[p]>>], <<",", " ">>)),
                         {"findVariables"})
             ELSE /\ pc' = "int"
                  /\ leftSide' = left
                  /\ rightSide' = right
                  /\ variable' = found[1]
                  /\ i' = IntMin
                  /\ called' = called \cup {"findVariables", "solveNumerically"}
                  /\ UNCHANGED <<grid, problemText, n, d, x, solutions, outcome,
                                 stage, trial>>

(***************************************************************************)
(* solveNumerically                                                        *)
(***************************************************************************)
\* evaluateFor(value): the difference of the two sides at the value.
EvaluateFor(value) ==
  LET sc == [v \in {variable} |-> value]
      leftResult == Evaluate(leftSide, sc)
      rightResult == Evaluate(rightSide, sc)
  IN IF leftResult.ok /\ rightResult.ok
     THEN Value(Minus(leftResult.val, rightResult.val))
     ELSE Threw

\* return value (from inside the loops)
Return(value, from, accepted, newCalls) ==
  /\ pc' = "returned"
  /\ solutions' = value
  /\ stage' = from
  /\ trial' = accepted
  /\ called' = called \cup newCalls
  /\ UNCHANGED <<grid, problemText, leftSide, rightSide, variable, i, n, d, x,
                 outcome>>

\* catch (error) { return null; }
Caught == Return(Null, "threw", None, {"evaluate"})

\* for (let i = -1000; i <= 1000; i++): one pass through the loop.
IntegerStage ==
  /\ UNCHANGED outside
  /\ pc = "int"
  /\ UNCHANGED session
  /\ IF ~(i <= IntMax)
     THEN /\ pc' = "rat"
          /\ n' = 1
          /\ d' = DenominatorMin
          /\ UNCHANGED <<grid, problemText, leftSide, rightSide, variable, i, x,
                         solutions, outcome, stage, trial, called>>
     ELSE LET diff == EvaluateFor(Num(i, 1)) IN
     IF ~diff.ok THEN Caught
     ELSE IF WithinTolerance(diff.val)
     THEN Return(Num(i, 1), "integer", Num(i, 1), {"evaluate"})
     ELSE /\ i' = i + 1
          /\ called' = called \cup {"evaluate"}
          /\ UNCHANGED <<grid, problemText, pc, leftSide, rightSide, variable, n, d,
                         x, solutions, outcome, stage, trial>>

\* for (let n = 1; n <= 20; n++) for (let d = 2; d <= 20; d++): one pass
\* through the inner loop, or one step of the outer loop.
RationalStage ==
  /\ UNCHANGED outside
  /\ pc = "rat"
  /\ UNCHANGED session
  /\ IF ~(n <= NumeratorMax)
     THEN /\ pc' = "dec"
          /\ x' = Num(DecimalMin, 1)
          /\ UNCHANGED <<grid, problemText, leftSide, rightSide, variable, i, n, d,
                         solutions, outcome, stage, trial, called>>
     ELSE IF ~(d <= DenominatorMax)
     THEN /\ n' = n + 1
          /\ d' = DenominatorMin
          /\ UNCHANGED <<grid, problemText, pc, leftSide, rightSide, variable, i, x,
                         solutions, outcome, stage, trial, called>>
     ELSE LET val == Num(n, d)
              diff == EvaluateFor(val)
              diffNeg == EvaluateFor(Neg(val))
          IN IF ~diff.ok THEN Caught
             ELSE IF WithinTolerance(diff.val)
             THEN Return(val, "rational", val, {"evaluate"})
             ELSE IF WithinTolerance(diffNeg.val)
             THEN Return(Neg(val), "rational", Neg(val), {"evaluate"})
             ELSE /\ d' = d + 1
                  /\ called' = called \cup {"evaluate"}
                  /\ UNCHANGED <<grid, problemText, pc, leftSide, rightSide,
                                 variable, i, n, x, solutions, outcome, stage,
                                 trial>>

\* Mutant of RoundedDecimal: the trial value is returned as it is.
RoundedDecimalNone(xv) == xv

\* Number(x.toFixed(4))
RoundedDecimal(xv) == ToNumber(ToFixed(xv, DecimalDigits))

\* for (let x = -10; x <= 10; x += 0.01): one pass through the loop.  The
\* start value is exact; every later value carries the rounding error of the
\* additions that made it.
DecimalStage ==
  /\ UNCHANGED outside
  /\ pc = "dec"
  /\ UNCHANGED session
  /\ LET diff == EvaluateFor(x) IN   \* the evaluator does not read the drift
     \E e \in Drift :
       LET xv == Float(x.n, x.d, IF x = Num(DecimalMin, 1) THEN 0 ELSE e)
       IN IF ~LessEq(xv, Num(DecimalMax, 1))
          THEN Return(Null, "none", None, {})
          ELSE IF ~diff.ok THEN Caught
          ELSE IF WithinTolerance(diff.val)
          THEN Return(RoundedDecimal(xv), "decimal", xv,
                      {"evaluate"})
          ELSE /\ x' = Add(x, Num(1, DecimalStepInv))
               /\ called' = called \cup {"evaluate"}
               /\ UNCHANGED <<grid, problemText, pc, leftSide, rightSide, variable,
                              i, n, d, solutions, outcome, stage, trial>>

\* Mutant of SolvedRecord: the steps in the other order.
SolvedRecordSwapped(equation, name, value) ==
  LET line == <<name, " = ">> \o NumberToString(value)
  IN Record(equation, line,
            << Step(line, <<"Solution for ", name>>),
               Step(equation, <<"Original equation">>) >>)

\* The record of a solved equation.
SolvedRecord(equation, name, value) ==
  LET line == <<name, " = ">> \o NumberToString(value)
  IN Record(equation, line,
            << Step(equation, <<"Original equation">>),
               Step(line, <<"Solution for ", name>>) >>)

\* Mutant of UnsolvedRecord: the failure is thrown.
UnsolvedThrown(equation) == Thrown(<<"Could not solve equation">>)

\* The record of an equation the numeric search did not solve.
UnsolvedRecord(equation) ==
  Record(equation, <<"Could not solve equation">>,
         << Step(equation,
                 <<"The equation is too complex to solve with this solver">>) >>)

\* solveSimpleEquation after solveNumerically returned.
SolveSimpleEquationReturn ==
  /\ UNCHANGED outside
  /\ pc = "returned"
  /\ UNCHANGED session
  /\ pc' = "done"
  /\ outcome' = IF solutions # Null
                 THEN SolvedRecord(problemText, variable, solutions)
                 ELSE UnsolvedRecord(problemText)
  /\ UNCHANGED <<grid, problemText, leftSide, rightSide, variable, i, n, d, x,
                 solutions, stage, trial, called>>

(***************************************************************************)
(* solveSimultaneousEquations                                              *)
(***************************************************************************)
GridMin == -10
GridMax == 10
\* The grid step is 1 / GridStepInv.  The source steps by 0.05 (GridStepInv
\* 20, 401 values an axis); the model checks a coarser grid.
GridStepInv == 1
GridDigits == 3

GridStep == Num(1, GridStepInv)

NotE(v) == v \notin {"e", "E"}

ParsedEquation(eq) ==
  LET sides == Split(eq, {"="})
  IN [left |-> Trim(sides[1]), right |-> Trim(sides[2])]

\* Mutant of ThrownSimultaneous: the catch answers with a record.
AbsorbedSimultaneous(message) ==
  Record(<<>>, <<"Could not solve simultaneous equations: ">> \o message, <<>>)

\* Throws inside solveSimultaneousEquations pass through its catch, which
\* wraps the message, and then through the catch of solveSimpleEquation.
ThrownSimultaneous(message) ==
  Thrown(<<"Could not solve simultaneous equations: ">> \o message)

\* Mutant of NoSolution: the exhausted search answers like the single-variable
\* solver does.
NoSolutionRecord ==
  Record(<<>>, <<"Could not solve equation">>, <<>>)

\* throw new Error('No solution found in the given range'), after the loops.
NoSolution ==
  ThrownSimultaneous(<<"No solution found in the given range">>)

\* Mutant of FirstFailing: only the first equation is tested.
FirstFailingFirstOnly(eqs, sc, p) ==
  LET leftVal == Evaluate(ParsedEquation(eqs[1]).left, sc)
      rightVal == Evaluate(ParsedEquation(eqs[1]).right, sc)
  IN IF leftVal.ok /\ rightVal.ok
        /\ WithinTolerance(Minus(leftVal.val, rightVal.val))
     THEN 0 ELSE 1

\* The first equation, in order, that is not satisfied or that throws decides
\* Array.prototype.every: the index of that equation, or 0 when every
\* equation is satisfied.
RECURSIVE FirstFailing(_, _, _)
FirstFailing(eqs, sc, p) ==
  IF p > Len(eqs) THEN 0
  ELSE LET leftVal == Evaluate(ParsedEquation(eqs[p]).left, sc)
           rightVal == Evaluate(ParsedEquation(eqs[p]).right, sc)
       IN IF ~leftVal.ok \/ ~rightVal.ok THEN p
          ELSE IF ~WithinTolerance(Minus(leftVal.val, rightVal.val)) THEN p
          ELSE FirstFailing(eqs, sc, p + 1)

EquationThrows(eq, sc) ==
  \/ ~Evaluate(ParsedEquation(eq).left, sc).ok
  \/ ~Evaluate(ParsedEquation(eq).right, sc).ok

EquationSatisfied(eq, sc) ==
  /\ ~EquationThrows(eq, sc)
  /\ WithinTolerance(Minus(Evaluate(ParsedEquation(eq).left, sc).val,
                           Evaluate(ParsedEquation(eq).right, sc).val))

\* scope[name] = value
Bind(sc, name, value) ==
  [v \in DOMAIN sc \cup {name} |-> IF v = name THEN value ELSE sc[v]]

\* variables[p] of the source; "undefined" names the property that an index
\* past the end of the array yields.
VariableAt(vs, p) == IF p <= Len(vs) THEN vs[p] ELSE "undefined"

\* Mutant of Fixed: the shortest decimal text of the value.
FixedShortest(value, e) == NumberToString(Num(value.n, value.d))

\* value.toFixed(3) of a bound or computed value; the drift of a loop value
\* is chosen where the value is formatted.
Fixed(value, e) == ToFixed(Float(value.n, value.d, e), GridDigits)

Assignment(vs, sc, e) ==
  Join([p \in 1..Len(vs) |-> <<vs[p], " = ">> \o Fixed(sc[vs[p]], e)],
       <<",", " ">>)

Verification(eq, sc) ==
  LET pe == ParsedEquation(eq)
  IN pe.left \o <<" = ">> \o Fixed(Evaluate(pe.left, sc).val, 0)
       \o <<" ~ ">> \o Fixed(Evaluate(pe.right, sc).val, 0)
       \o <<" = ">> \o pe.right

SolutionRecord(eqs, vs, sc, e) ==
  Record(Join(eqs, <<"\n">>),
         Assignment(vs, sc, e),
         << Step(<<"System of equations:">>, Join(eqs, <<"\n">>)),
            Step(<<"Solution found:">>, Assignment(vs, sc, e)),
            Step(<<"Verification:">>,
                 Join([p \in 1..Len(eqs) |-> Verification(eqs[p], sc)],
                      <<"\n">>)) >>)

GridFinish(result, newCalls) ==
  /\ pc' = "done"
  /\ outcome' = result
  /\ stage' = "grid"
  /\ called' = called \cup newCalls
  /\ UNCHANGED <<problemText, single, trial>>

\* solveSimpleEquation with more than one equation: the call of
\* solveSimultaneousEquations up to its loops.
SolveSimultaneousEquations ==
  /\ UNCHANGED outside
  /\ pc = "call"
  /\ entry = "solveMathProblem"
  /\ UNCHANGED session
  /\ Contains(problemText, "=")
  /\ Len(Equations(problemText)) > 1
  /\ LET eqs == Equations(problemText)
     IN /\ equations' = eqs
        /\ called' = called \cup {"solveSimultaneousEquations"}
        /\ IF \E p \in 1..Len(eqs) : Len(Split(eqs[p], {"="})) # 2
           THEN /\ pc' = "done"
                /\ outcome' = ThrownSimultaneous(<<"Invalid equation format">>)
                /\ stage' = "grid"
                /\ UNCHANGED <<variables, gx, scope>>
           ELSE /\ pc' = "gridX"
                /\ variables' =
                     SelectSeq(Distinct(MatchLetters(Join(eqs, <<" ">>))), NotE)
                /\ scope' = <<>>
                /\ gx' = Num(GridMin, 1)
                /\ UNCHANGED <<outcome, stage>>
  /\ UNCHANGED <<problemText, single, gy, gz, trial>>

\* A loop value as the guard of its loop sees it: the start value is exact,
\* a later one carries rounding error.
LoopValue(g, e) == Float(g.n, g.d, IF g = Num(GridMin, 1) THEN 0 ELSE e)

\* for (let x = -10; x <= 10; x += 0.05): the guard and the first statement.
GridX ==
  /\ UNCHANGED outside
  /\ pc = "gridX"
  /\ UNCHANGED session
  /\ \E e \in Drift :
       IF ~LessEq(LoopValue(gx, e), Num(GridMax, 1))
       THEN /\ GridFinish(NoSolution, {})
            /\ UNCHANGED grid
       ELSE /\ pc' = "gridY"
            /\ scope' = Bind(scope, VariableAt(variables, 1), gx)
            /\ gy' = Num(GridMin, 1)
            /\ UNCHANGED <<problemText, single, equations, variables, gx, gz,
                           outcome, stage, trial, called>>

\* for (let y = -10; y <= 10; y += 0.05): the guard and the first statement,
\* or the step of the x loop when the y loop has ended.
GridY ==
  /\ UNCHANGED outside
  /\ pc = "gridY"
  /\ UNCHANGED session
  /\ \E e \in Drift :
       IF ~LessEq(LoopValue(gy, e), Num(GridMax, 1))
       THEN /\ pc' = "gridX"
            /\ gx' = Add(gx, GridStep)
            /\ UNCHANGED <<problemText, single, equations, variables, gy, gz,
                           scope, outcome, stage, trial, called>>
       ELSE /\ pc' = "gridZ"
            /\ scope' = Bind(scope, VariableAt(variables, 2), gy)
            /\ gz' = Num(GridMin, 1)
            /\ UNCHANGED <<problemText, single, equations, variables, gx, gy,
                           outcome, stage, trial, called>>

\* for (let z = -10; z <= 10; z += 0.05): one pass through the loop, or the
\* step of the y loop when the z loop has ended.
GridZ ==
  /\ UNCHANGED outside
  /\ pc = "gridZ"
  /\ UNCHANGED session
  /\ LET sc == IF Len(variables) > 2
               THEN Bind(scope, variables[3], gz) ELSE scope
         failing == FirstFailing(equations, sc, 1)
     IN \E e \in Drift :
          IF ~LessEq(LoopValue(gz, e), Num(GridMax, 1))
          THEN /\ pc' = "gridY"
               /\ gy' = Add(gy, GridStep)
               /\ UNCHANGED <<problemText, single, equations, variables, gx,
                              gz, scope, outcome, stage, trial, called>>
          ELSE /\ scope' = sc
               /\ IF failing # 0 /\ EquationThrows(equations[failing], sc)
                  THEN /\ GridFinish(ThrownSimultaneous(EvaluatorMessage),
                                     {"evaluate"})
                       /\ UNCHANGED <<equations, variables, gx, gy, gz>>
                  ELSE IF failing = 0
                  THEN /\ GridFinish(SolutionRecord(equations, variables, sc, e),
                                     {"evaluate"})
                       /\ UNCHANGED <<equations, variables, gx, gy, gz>>
                  ELSE /\ gz' = Add(gz, GridStep)
                       /\ called' = called \cup {"evaluate"}
                       /\ UNCHANGED <<problemText, pc, single, equations,
                                      variables, gx, gy, outcome, stage,
                                      trial>>

(***************************************************************************)
(* evaluateExpression                                                      *)
(***************************************************************************)
LineTerminators == {"\n", "\r"}

\* expression.replace(/=.*$/, ''): the match starts at the first '=' that no
\* line terminator follows ('.' matches none, '$' matches the end of the
\* input only); without such an '=' the text is unchanged.
StripEqualsSuffix(s) ==
  LET starts == {p \in 1..Len(s) :
                   /\ s[p] = "="
                   /\ \A q \in (p+1)..Len(s) : s[q] \notin LineTerminators}
  IN IF starts = {} THEN s
     ELSE SubSeq(s, 1, (CHOOSE p \in starts : \A q \in starts : p <= q) - 1)

\* .replace(/(\d+)\(/g, '$1*(').replace(/\)\(/g, ')*('): a '*' goes before
\* every '(' that follows a digit or a ')'.
RECURSIVE ExplicitMultiplication(_)
ExplicitMultiplication(s) ==
  IF Len(s) < 2 THEN s
  ELSE IF s[2] = "(" /\ s[1] \in Digits \cup {")"}
  THEN <<s[1], "*">> \o ExplicitMultiplication(Tail(s))
  ELSE <<s[1]>> \o ExplicitMultiplication(Tail(s))

\* The catch of evaluateExpression.
ThrownExpression(message) ==
  [kind |-> "error",
   message |-> <<"Could not evaluate expression: ">> \o message]

\* result.toString() of undefined throws a TypeError.
ToStringMessage ==
  <<"Cannot read properties of undefined (reading 'toString')">>

\* Mutant of ExpressionRecord: the steps in the other order.
ExpressionRecordSwapped(cleaned, result) ==
  Record(cleaned, NumberToString(result),
         << Step(NumberToString(result), <<"Result">>),
            Step(cleaned, <<"Original expression">>) >>)

ExpressionRecord(cleaned, result) ==
  Record(cleaned, NumberToString(result),
         << Step(cleaned, <<"Original expression">>),
            Step(NumberToString(result), <<"Result">>) >>)

\* What evaluateExpression returns or throws.
EvaluateExpressionResult(expression) ==
  LET cleanedExpression == Trim(StripEqualsSuffix(expression))
      processedExpression == ExplicitMultiplication(cleanedExpression)
      result == Evaluate(processedExpression, <<>>)
  IN IF ~result.ok THEN ThrownExpression(EvaluatorMessage)
     ELSE IF result.val = Undefined THEN ThrownExpression(ToStringMessage)
     ELSE ExpressionRecord(cleanedExpression, result.val)

\* evaluateExpression, called directly or by solveMathProblem for a text
\* without '=', up to math.config, which sets the option predictable of the
\* module's evaluator.
EvaluateExpression ==
  /\ UNCHANGED outside
  /\ pc = "call"
  /\ entry = "evaluateExpression" \/ ~Contains(problemText, "=")
  /\ predictable' = TRUE
  /\ pc' = "configured"
  /\ called' = called \cup {"evaluateExpression"}
  /\ UNCHANGED <<problemText, single, grid, outcome, stage, trial, entry,
                 calls, earlier>>

\* evaluateExpression after math.config: the evaluation and the record.
EvaluateExpressionReturn ==
  /\ UNCHANGED outside
  /\ pc = "configured"
  /\ pc' = "done"
  /\ called' = called \cup {"evaluate"}
  /\ outcome' = EvaluateExpressionResult(problemText)
  /\ UNCHANGED <<problemText, single, grid, stage, trial, session>>

(***************************************************************************)
(* Calls in sequence                                                       *)
(***************************************************************************)
\* The caller makes another call, on the module as the calls so far left it.
NextCall ==
  /\ UNCHANGED outside
  /\ pc = "done"
  /\ calls < MaxCalls
  /\ <<entry, problemText>> \in RepeatInputs
  /\ \E c \in RepeatInputs :
       /\ entry' = c[1]
       /\ problemText' = c[2]
  /\ calls' = calls + 1
  /\ earlier' = IF earlier = None
                THEN [entry |-> entry, text |-> problemText,
                      outcome |-> outcome]
                ELSE earlier
  /\ pc' = "call"
  /\ leftSide' = <<>> /\ rightSide' = <<>> /\ variable' = ""
  /\ i' = 0 /\ n' = 0 /\ d' = 0 /\ x' = Num(0, 1)
  /\ solutions' = Null
  /\ equations' = <<>> /\ variables' = <<>>
  /\ gx' = Num(0, 1) /\ gy' = Num(0, 1) /\ gz' = Num(0, 1)
  /\ scope' = <<>>
  /\ outcome' = None
  /\ stage' = "none"
  /\ trial' = None
  /\ called' = {}
  /\ UNCHANGED predictable

Next ==
  \/ SolveSimpleEquation
  \/ IntegerStage
  \/ RationalStage
  \/ DecimalStage
  \/ SolveSimpleEquationReturn
  \/ SolveSimultaneousEquations
  \/ GridX
  \/ GridY
  \/ GridZ
  \/ EvaluateExpression
  \/ EvaluateExpressionReturn
  \/ NextCall

Spec == Init /\ [][Next]_vars

\* Every text the model hands to Evaluate lies in the fragment on which
\* Evaluate models mathjs.
EvaluatedInFragment ==
  "evaluate" \in called =>
    IF "evaluateExpression" \in called
    THEN InFragment(ExplicitMultiplication(
                      Trim(StripEqualsSuffix(problemText))),
                    Letters \ {"e", "E", "i"})
    ELSE \A p \in 1..Len(Equations(problemText)) :
           LET parts == Split(Equations(problemText)[p], {"="})
           IN \A q \in 1..Len(parts) :
                InFragment(parts[q], Letters \ {"e", "E", "i"})

(***************************************************************************)
(* Properties                                                              *)
(***************************************************************************)
\* |a - b| < 1e-5 for two numbers, read off the fractions: with the
\* difference num/den, num * 100000 < den.
Below1e5(a, b) ==
  LET g == GCD(a.d, b.d)
      num == Abs(a.n * (b.d \div g) - b.n * (a.d \div g))
      den == (a.d \div g) * b.d
  IN num < (den + 99999) \div 100000

\* Both sides of left = right evaluate to numbers under the binding, and
\* these differ by less than 1e-5.
SidesAgree(left, right, binding) ==
  LET l == Evaluate(left, binding)
      r == Evaluate(right, binding)
  IN /\ l.ok /\ r.ok
     /\ IsNum(l.val) /\ IsNum(r.val)
     /\ Below1e5(l.val, r.val)

\* The value solves the equation handed to solveNumerically.
SolvesAt(value) ==
  SidesAgree(leftSide, rightSide, [v \in {variable} |-> value])

\* solveNumerically was called and solveSimpleEquation has returned.
Searched == pc = "done" /\ "solveNumerically" \in called

IntegerSolutions == {j \in (-1000)..1000 : SolvesAt(Num(j, 1))}

SmallestIntegerSolution ==
  CHOOSE j \in IntegerSolutions : \A k \in IntegerSolutions : j <= k

\* The candidates <<n, d, sign>> of the rational stage that solve the equation.
RationalSolutions ==
  {c \in (1..20) \X (2..20) \X {1, -1} : SolvesAt(Num(c[3] * c[1], c[2]))}

\* The order of the rational stage: numerator, then denominator, then + first.
Earlier(a, b) ==
  \/ a[1] < b[1]
  \/ a[1] = b[1] /\ a[2] < b[2]
  \/ a[1] = b[1] /\ a[2] = b[2] /\ a[3] > b[3]

FirstRationalSolution ==
  CHOOSE c \in RationalSolutions :
    \A o \in RationalSolutions \ {c} : Earlier(c, o)

\* The multiples k/100 of 0.01 in [-10, 10] that solve the equation.
DecimalSolutions == {k \in (-1000)..1000 : SolvesAt(Num(k, 100))}

SmallestDecimalSolution ==
  CHOOSE k \in DecimalSolutions : \A j \in DecimalSolutions : k <= j

EqualsCount ==
  Cardinality({p \in 1..Len(problemText) : problemText[p] = "="})

SingleEquation == Len(Equations(problemText)) <= 1

\* solveSimpleEquation has returned or thrown.
Returned == pc = "done" /\ "evaluateExpression" \notin called

\* C1: a value solveNumerically returns is the trial value it accepted (in the
\* decimal stage, that value rounded), and the accepted trial value makes the
\* two sides differ by less than 1e-5; a record the simultaneous solver
\* returns is built at a binding at which every equation's sides differ by
\* less than 1e-5.
C1_AcceptedWithinTolerance ==
  /\ (pc \in {"returned", "done"} /\ solutions # Null) =>
       /\ trial # None
       /\ SolvesAt(trial)
       /\ solutions.n = trial.n /\ solutions.d = trial.d
  /\ (pc = "done" /\ stage = "grid" /\ outcome.kind = "record") =>
       \A p \in 1..Len(equations) :
         SidesAgree(ParsedEquation(equations[p]).left,
                    ParsedEquation(equations[p]).right, scope)

C1_Witness ==
  /\ pc = "done" /\ stage = "grid" /\ outcome.kind = "record"
  /\ problemText = <<"x","+","y","=","1","0",";","x","-","y","=","2">>
  /\ scope["x"] = Num(6, 1) /\ scope["y"] = Num(4, 1)

\* C2: when some integer in [-1000, 1000] solves the equation, the solver
\* returns the smallest such integer, from the integer stage.
C2_SmallestIntegerWins ==
  (Searched /\ IntegerSolutions # {}) =>
     /\ stage = "integer"
     /\ solutions = Num(SmallestIntegerSolution, 1)

C2_Witness ==
  /\ Searched
  /\ problemText = <<"5","*","x","+","1","0","=","2","5">>
  /\ stage = "integer"
  /\ solutions = Num(3, 1)
  /\ outcome.answer = <<"x", " = ", "3">>

\* C3: the rational stage decides only when no integer in [-1000, 1000]
\* solves the equation, and then returns the first solving candidate in the
\* order n = 1..20 (outer), d = 2..20 (inner), +n/d before -n/d, with the
\* loops standing at that candidate.
C3_FirstRationalWins ==
  Searched =>
    /\ stage = "rational" => IntegerSolutions = {}
    /\ (IntegerSolutions = {} /\ RationalSolutions # {}) =>
         /\ stage = "rational"
         /\ n = FirstRationalSolution[1]
         /\ d = FirstRationalSolution[2]
         /\ solutions = Num(FirstRationalSolution[3] * n, d)

C3_Witness ==
  /\ Searched
  /\ problemText = <<"1","5","*","x","*","x","+","2","=","1","3","*","x">>
  /\ stage = "rational"
  /\ n = 1 /\ d = 5
  /\ solutions = Num(1, 5)

\* C4: the decimal stage decides only when no integer and no candidate of the
\* rational stage solves the equation, and then returns the first multiple
\* of 0.01 in [-10, 10], ascending, that solves it, rounded to 4 decimals (the
\* rounding error of the trial value removed).
C4_FirstDecimalRounded ==
  Searched =>
    /\ stage = "decimal" => (IntegerSolutions = {} /\ RationalSolutions = {})
    /\ (IntegerSolutions = {} /\ RationalSolutions = {}
          /\ DecimalSolutions # {}) =>
         /\ stage = "decimal"
         /\ solutions = Num(SmallestDecimalSolution, 100)
         /\ 10000 % solutions.d = 0

C4_Witness ==
  /\ Searched
  /\ problemText = <<"2","5","*","x","=","3">>
  /\ stage = "decimal"
  /\ trial.n = 3 /\ trial.d = 25 /\ trial.e # 0
  /\ solutions = Num(12, 100)

\* C5: when the three stages end without a match, solveSimpleEquation returns
\* a record whose answer is "Could not solve equation" and whose steps are
\* one step restating the equation; and the stages end without a match when
\* the sides evaluate and nothing the stages try solves the equation.
C5_NotFoundRecord ==
  Searched =>
    /\ EvaluateFor(Num(0, 1)).ok =>
         ((IntegerSolutions = {} /\ RationalSolutions = {}
             /\ DecimalSolutions = {}) <=> stage = "none")
    /\ stage = "none" =>
         /\ solutions = Null
         /\ outcome.kind = "record"
         /\ outcome.problem = problemText
         /\ outcome.answer = <<"Could not solve equation">>
         /\ Len(outcome.steps) = 1
         /\ outcome.steps[1].expression = problemText

C5_Witness ==
  /\ Searched
  /\ problemText = <<"x","*","x","=","2">>
  /\ stage = "none"
  /\ x = Num(1001, 100)
  /\ outcome.answer = <<"Could not solve equation">>

\* The decimal text after "<variable> = " in the answer.
AnswerValueText == SubSeq(outcome.answer, 3, Len(outcome.answer))

\* C6: when the solver found a value, the record's problem is the equation
\* text, its answer is "<variable> = <value>" (the value's decimal text, which
\* reads back as the value when it has at most 4 decimals), and its steps are
\* the equation, then the solution line.
C6_SolvedRecord ==
  (Searched /\ solutions # Null) =>
    /\ outcome.kind = "record"
    /\ outcome.problem = problemText
    /\ Len(outcome.answer) >= 3
    /\ outcome.answer[1] = variable
    /\ outcome.answer[2] = " = "
    /\ 10000 % solutions.d = 0 => ToNumber(AnswerValueText) = solutions
    /\ Len(outcome.steps) = 2
    /\ outcome.steps[1].expression = problemText
    /\ outcome.steps[2].expression = outcome.answer

C6_Witness ==
  /\ Searched
  /\ problemText = <<"x","+","x","=","7">>
  /\ outcome.problem = problemText
  /\ outcome.answer = <<"x", " = ", "3", ".", "5">>
  /\ outcome.steps[2].expression = <<"x", " = ", "3", ".", "5">>

\* C7: a single-equation text with more or fewer than one '=' fails with the
\* format error, with no variable extraction and no evaluation before it,
\* and yields no record.
C7_FormatErrorFirst ==
  (Returned /\ SingleEquation /\ EqualsCount # 1) =>
    /\ outcome.kind = "error"
    /\ outcome.message =
         <<"Could not solve equation: ", "Invalid equation format">>
    /\ called = {}

C7_Witness ==
  /\ pc = "done"
  /\ problemText = <<"x","=","1","=","1">>
  /\ outcome.kind = "error"
  /\ called = {}

\* The function names of the exclusion list.
FunctionNames ==
  { <<"s","i","n">>, <<"c","o","s">>, <<"t","a","n">>, <<"l","o","g">>,
    <<"l","n">>, <<"s","q","r","t">> }

\* Position p of the text lies inside an occurrence of a function name.
InFunctionName(t, p) ==
  \E f \in FunctionNames :
    \E q \in 1..Len(t) :
      /\ q <= p /\ p < q + Len(f)
      /\ q + Len(f) - 1 <= Len(t)
      /\ SubSeq(t, q, q + Len(f) - 1) = f

\* The positions at which an unknown appears for the first time.
FirstAppearances(t) ==
  LET free == {p \in 1..Len(t) : t[p] \in Letters /\ ~InFunctionName(t, p)}
  IN {p \in free : \A q \in free : q < p => t[q] # t[p]}

RECURSIVE InOrder(_, _)
InOrder(t, ps) ==
  IF ps = {} THEN <<>>
  ELSE LET p == CHOOSE q \in ps : \A r \in ps : q <= r
       IN <<t[p]>> \o InOrder(t, ps \ {p})

\* The unknowns of a text: its distinct letters outside function names, in
\* order of first appearance.
Unknowns(t) == InOrder(t, FirstAppearances(t))

RECURSIVE CommaList(_)
CommaList(names) ==
  IF names = <<>> THEN <<>>
  ELSE IF Len(names) = 1 THEN <<names[1]>>
  ELSE <<names[1], ",", " ">> \o CommaList(Tail(names))

\* C8: a single equation with more than one distinct unknown fails with
\* "Multiple variables found: " followed by the unknowns in order of first
\* appearance, without numeric search or evaluation, and yields no record.
C8_MultipleVariablesNamed ==
  (Returned /\ SingleEquation /\ EqualsCount = 1
     /\ Len(Unknowns(problemText)) > 1) =>
    /\ outcome.kind = "error"
    /\ outcome.message =
         <<"Could not solve equation: ", "Multiple variables found: ">>
           \o CommaList(Unknowns(problemText))
    /\ "solveNumerically" \notin called
    /\ "evaluate" \notin called

\* The run on which C8 fails: the unknowns are x and y, the message names the
\* letters of sqrt as well.
C8_Witness ==
  /\ pc = "done"
  /\ problemText = <<"s","q","r","t","(","x",")","+","y","=","2">>
  /\ Unknowns(problemText) = <<"x", "y">>
  /\ outcome.kind = "error"
  /\ outcome.message =
       <<"Could not solve equation: ", "Multiple variables found: ">>
         \o CommaList(<<"s", "q", "r", "t", "x", "y">>)

\* C9: for an equation without variables whose sides evaluate, the answer is
\* "True" exactly when the sides are numbers that differ by less than 1e-5,
\* else "False", and the steps are four: the equation, the left side and its
\* value, the right side and its value, the verdict.
C9_EqualityVerdict ==
  LET parts == Split(problemText, {"="})
      left == Trim(parts[1])
      right == Trim(parts[2])
      agree == SidesAgree(left, right, <<>>)
  IN (Returned /\ SingleEquation /\ EqualsCount = 1
        /\ \A p \in 1..Len(problemText) : problemText[p] \notin Letters
        /\ Evaluate(left, <<>>).ok /\ Evaluate(right, <<>>).ok) =>
       /\ outcome.kind = "record"
       /\ outcome.problem = problemText
       /\ outcome.answer = IF agree THEN <<"True">> ELSE <<"False">>
       /\ Len(outcome.steps) = 4
       /\ outcome.steps[1].expression = problemText
       /\ SubSeq(outcome.steps[2].expression, 1, Len(left) + 1)
            = left \o <<" = ">>
       /\ outcome.steps[2].explanation = <<"Left side evaluation">>
       /\ SubSeq(outcome.steps[3].expression, 1, Len(right) + 1)
            = right \o <<" = ">>
       /\ outcome.steps[3].explanation = <<"Right side evaluation">>
       /\ outcome.steps[4].expression =
            IF agree THEN <<"The equality is true">>
                     ELSE <<"The equality is false">>

\* The run on which C9 fails: on the freshly loaded module the left side of
\* (-4)^0.5=0 is a complex value, at distance 2 from the right side, and the
\* answer is "True".
C9_Witness ==
  /\ Returned
  /\ problemText = <<"(","-","4",")","^","0",".","5","=","0">>
  /\ ~predictable
  /\ Evaluate(<<"(","-","4",")","^","0",".","5">>, <<>>).val = Complex
  /\ outcome.answer = <<"True">>
  /\ outcome.steps[4].expression = <<"The equality is true">>

\* The verdict and the steps are as C9 states them whenever both sides
\* evaluate to numbers, or to no number at all.
C9_RealSides ==
  LET parts == Split(problemText, {"="})
  IN (Returned /\ SingleEquation /\ EqualsCount = 1
        /\ Evaluate(Trim(parts[1]), <<>>).ok
        /\ Evaluate(Trim(parts[1]), <<>>).val # Complex
        /\ Evaluate(Trim(parts[2]), <<>>).ok
        /\ Evaluate(Trim(parts[2]), <<>>).val # Complex) =>
       C9_EqualityVerdict

\* At the boundary: 0.00001 and 0 differ by the tolerance, the answer is
\* "False".
C9_BoundaryWitness ==
  /\ Returned
  /\ problemText = <<"0",".","0","0","0","0","1","=","0">>
  /\ outcome.answer = <<"False">>
  /\ Len(outcome.steps) = 4

\* C10: findVariables returns the unknowns of its input: the distinct letters
\* outside the function names sin, cos, tan, log, ln, sqrt, in order of first
\* appearance.
C10_FunctionNamesExcluded ==
  "findVariables" \in called =>
    findVariables(problemText) = Unknowns(problemText)

\* The run on which C10 fails: sqrt(x)=2 has the one unknown x, findVariables
\* returns the five letters s, q, r, t, x and the equation is refused.
C10_Witness ==
  /\ pc = "done"
  /\ problemText = <<"s","q","r","t","(","x",")","=","2">>
  /\ Unknowns(problemText) = <<"x">>
  /\ findVariables(problemText) = <<"s", "q", "r", "t", "x">>
  /\ outcome.kind = "error"
  /\ "solveNumerically" \notin called

\* C11: on the single-variable path, when the evaluator rejects a side at a
\* trial value, the solve fails with an error; the caller gets no record.
C11_EvaluatorErrorPropagates ==
  (Searched /\ ~EvaluateFor(Num(IntMin, 1)).ok) => outcome.kind = "error"

\* The run on which C11 fails: x+=3 is malformed, the evaluator throws at the
\* first trial value, solveNumerically returns null and the caller gets the
\* record of an unsolved equation.
C11_Witness ==
  /\ Searched
  /\ problemText = <<"x","+","=","3">>
  /\ stage = "threw"
  /\ i = IntMin
  /\ outcome.kind = "record"
  /\ outcome.answer = <<"Could not solve equation">>

\* The values of one axis of the grid.
GridValues ==
  {Num(k, GridStepInv) : k \in (GridMin * GridStepInv)..(GridMax * GridStepInv)}

Below(a, b) == a.n * b.d < b.n * a.d

\* The grid point <<a, b, c>> comes before <<a2, b2, c2>> in the order of the
\* nested loops: first variable outermost, third innermost, each ascending.
PointBefore(a, b, c, a2, b2, c2) ==
  \/ Below(a, a2)
  \/ a = a2 /\ Below(b, b2)
  \/ a = a2 /\ b = b2 /\ Below(c, c2)

\* The first three unknowns of the system bound to the point <<a, b, c>>.
PointBinding(a, b, c) ==
  [v \in {variables[p] : p \in 1..(IF Len(variables) < 3 THEN Len(variables)
                                    ELSE 3)} |->
     IF v = variables[1] THEN a ELSE IF v = variables[2] THEN b ELSE c]

\* Every equation of the system has sides that differ by less than 1e-5 at
\* the point.
AllAgreeAt(a, b, c) ==
  \A p \in 1..Len(equations) :
    SidesAgree(ParsedEquation(equations[p]).left,
               ParsedEquation(equations[p]).right, PointBinding(a, b, c))

\* The simultaneous solver returned a record.
GridSolved == pc = "done" /\ stage = "grid" /\ outcome.kind = "record"

\* C12: the point the simultaneous solver returns is a grid point at which
\* every equation's sides differ by less than 1e-5, and no grid point before
\* it in the order of the nested loops (first variable outermost, third
\* innermost, ascending) is such a point.
C12_FirstGridPoint ==
  GridSolved =>
    /\ {gx, gy, gz} \subseteq GridValues
    /\ AllAgreeAt(gx, gy, gz)
    /\ \A p \in 1..Len(variables) :
         scope[variables[p]] = <<gx, gy, gz>>[p]
    /\ \A a \in GridValues : ~Below(gx, a) =>
         \A b \in GridValues : (a = gx => ~Below(gy, b)) =>
           \A c \in GridValues :
             PointBefore(a, b, c, gx, gy, gz) => ~AllAgreeAt(a, b, c)

C12_Witness ==
  /\ GridSolved
  /\ problemText = <<"x","*","x","=","4",";","y","=","x">>
  /\ AllAgreeAt(Num(2, 1), Num(2, 1), Num(-10, 1))
  /\ gx = Num(-2, 1) /\ gy = Num(-2, 1) /\ gz = Num(-10, 1)
  /\ outcome.answer = <<"x", " = ">> \o ToFixed(Num(-2, 1), 3)
                        \o <<",", " ", "y", " = ">> \o ToFixed(Num(-2, 1), 3)

\* Every equation of the system has exactly one '='.
SystemWellFormed ==
  \A p \in 1..Len(equations) : Len(Split(equations[p], {"="})) = 2

\* At the point, the evaluator rejects a side of an equation that is reached:
\* the equations before it agree.
ThrowsAt(a, b, c) ==
  \E p \in 1..Len(equations) :
    /\ \/ ~Evaluate(ParsedEquation(equations[p]).left, PointBinding(a, b, c)).ok
       \/ ~Evaluate(ParsedEquation(equations[p]).right, PointBinding(a, b, c)).ok
    /\ \A q \in 1..(p-1) :
         SidesAgree(ParsedEquation(equations[q]).left,
                    ParsedEquation(equations[q]).right, PointBinding(a, b, c))

\* The simultaneous solver has returned, and no point of the grid satisfies
\* every equation or makes the evaluator throw (the point at which the loops
\* stopped is looked at first).
GridExhausted ==
  /\ pc = "done" /\ stage = "grid"
  /\ SystemWellFormed
  /\ {gx, gy, gz} \subseteq GridValues =>
       ~AllAgreeAt(gx, gy, gz) /\ ~ThrowsAt(gx, gy, gz)
  /\ \A a \in GridValues, b \in GridValues, c \in GridValues :
       ~AllAgreeAt(a, b, c) /\ ~ThrowsAt(a, b, c)

NoSolutionMessage ==
  <<"Could not solve equation: ", "Could not solve simultaneous equations: ",
    "No solution found in the given range">>

\* C13: when no point of the grid satisfies every equation, the simultaneous
\* solver fails with the error "No solution found in the given range" and
\* returns no record; and it fails so only when no point of the grid below
\* the upper end satisfies every equation.
C13_NoSolutionError ==
  /\ (pc = "done" /\ stage = "grid"
        /\ ~(outcome.kind = "error" /\ outcome.message = NoSolutionMessage))
       => ~GridExhausted
  /\ (pc = "done" /\ stage = "grid" /\ outcome.kind = "error"
        /\ outcome.message = NoSolutionMessage) =>
       \A a \in GridValues, b \in GridValues, c \in GridValues :
         (Below(a, Num(GridMax, 1)) /\ Below(b, Num(GridMax, 1))
            /\ Below(c, Num(GridMax, 1))) => ~AllAgreeAt(a, b, c)

C13_Witness ==
  /\ GridExhausted
  /\ problemText = <<"x","=","y",";","x","=","y","+","1">>
  /\ Below(Num(GridMax, 1), gx)
  /\ outcome.message = NoSolutionMessage

\* The staged search of the single-variable solver has ended without a match.
StagesExhausted ==
  /\ Searched
  /\ EvaluateFor(Num(0, 1)).ok
  /\ IntegerSolutions = {} /\ RationalSolutions = {} /\ DecimalSolutions = {}

\* C14 as stated: an exhausted search, staged or grid, gives the caller a
\* record with a "could not solve" answer, never an error.
C14_NotFoundNeverThrown ==
  (StagesExhausted \/ GridExhausted) =>
    /\ outcome.kind = "record"
    /\ outcome.answer = <<"Could not solve equation">>

\* C14, amended: an exhausted staged search gives the caller a record with
\* the answer "Could not solve equation"; an exhausted grid search of a
\* simultaneous system gives the caller an error and no record.
C14_NotFoundRecordOnlySingle ==
  /\ StagesExhausted =>
       /\ outcome.kind = "record"
       /\ outcome.answer = <<"Could not solve equation">>
  /\ (pc = "done" /\ stage = "grid"
        /\ ~(outcome.kind = "error"
              /\ outcome.message[1] = "Could not solve equation: "))
       => ~GridExhausted

C14_Witness ==
  /\ GridExhausted
  /\ problemText = <<"x","=","y",";","x","=","y","+","1">>
  /\ outcome.kind = "error"
  /\ called = {"solveSimultaneousEquations", "evaluate"}

\* The text of a number with exactly three decimals, for a number that has
\* no more than three.
ThreeDecimals(v) ==
  LET a == Abs(v.n)
      frac == ((a % v.d) * 1000) \div v.d
  IN (IF v.n < 0 THEN <<"-">> ELSE <<>>)
       \o NatToText(a \div v.d)
       \o <<".", DigitChar(frac \div 100), DigitChar((frac \div 10) % 10),
            DigitChar(frac % 10)>>

RECURSIVE AssignmentText(_)
AssignmentText(p) ==
  IF p > Len(variables) THEN <<>>
  ELSE (IF p > 1 THEN <<",", " ">> ELSE <<>>)
         \o <<variables[p], " = ">> \o ThreeDecimals(scope[variables[p]])
         \o AssignmentText(p + 1)

EquationLines == Join(equations, <<"\n">>)

VerificationLine(p) ==
  LET pe == ParsedEquation(equations[p])
  IN pe.left \o <<" = ">> \o ThreeDecimals(Evaluate(pe.left, scope).val)
       \o <<" ~ ">> \o ThreeDecimals(Evaluate(pe.right, scope).val)
       \o <<" = ">> \o pe.right

TenAndTwo == <<"x","+","y","=","1","0",";","x","-","y","=","2">>

\* The three steps of the record of a solved system, in order: the system
\* restated, the solution assignment, both sides of each equation evaluated
\* at the solution; each value with three decimals.
ThreeSteps ==
  /\ outcome.problem = EquationLines
  /\ Len(outcome.steps) = 3
  /\ outcome.steps[1] = Step(<<"System of equations:">>, EquationLines)
  /\ outcome.steps[2] = Step(<<"Solution found:">>, AssignmentText(1))
  /\ outcome.steps[3].expression = <<"Verification:">>
  /\ outcome.steps[3].explanation =
       Join([p \in 1..Len(equations) |-> VerificationLine(p)], <<"\n">>)

\* C15 as stated: a solved system yields the three steps, and for the system
\* x+y=10, x-y=2 the answer is "x = 6, y = 4".
C15_AnswerSixFour ==
  GridSolved =>
    /\ ThreeSteps
    /\ problemText = TenAndTwo =>
         outcome.answer = <<"x", " = ", "6", ",", " ", "y", " = ", "4">>

\* C15, amended: a solved system yields the three steps, its answer is the
\* solution assignment with every value printed with three decimals, and for
\* the system x+y=10, x-y=2 the answer is "x = 6.000, y = 4.000".
C15_AnswerThreeDecimals ==
  GridSolved =>
    /\ ThreeSteps
    /\ outcome.answer = AssignmentText(1)
    /\ problemText = TenAndTwo =>
         outcome.answer = <<"x", " = ", "6", ".", "0", "0", "0", ",", " ",
                            "y", " = ", "4", ".", "0", "0", "0">>

C15_Witness ==
  /\ GridSolved
  /\ problemText = TenAndTwo
  /\ scope["x"] = Num(6, 1) /\ scope["y"] = Num(4, 1)
  /\ Len(outcome.steps) = 3
  /\ outcome.steps[3].explanation =
       <<"x","+","y"," = ","1","0",".","0","0","0"," ~ ",
         "1","0",".","0","0","0"," = ","1","0","\n",
         "x","-","y"," = ","2",".","0","0","0"," ~ ",
         "2",".","0","0","0"," = ","2">>

NotScientificE(v) == v \notin {"e", "E"}

\* The unknowns of a system: the distinct letters of its equations outside
\* function names, in order of first appearance, without e and E.
SystemUnknowns == SelectSeq(Unknowns(Join(equations, <<" ">>)), NotScientificE)

\* C16: on the simultaneous path the unknowns are the distinct letters of the
\* equations in order of first appearance, outside function names and
\* without e and E, and once an equation has been evaluated every unknown is
\* bound in the scope.
C16_UnknownsBound ==
  (pc \in {"gridX", "gridY", "gridZ", "done"}
     /\ "solveSimultaneousEquations" \in called /\ SystemWellFormed) =>
    /\ variables = SystemUnknowns
    /\ "evaluate" \in called =>
         \A p \in 1..Len(SystemUnknowns) : SystemUnknowns[p] \in DOMAIN scope

\* The run on which C16 fails: four unknowns, of which the loops bind three;
\* the first evaluation meets the unbound d and throws.
C16_Witness ==
  /\ pc = "done"
  /\ problemText = <<"a","+","b","+","c","+","d","=","0",";","a","=","b">>
  /\ variables = <<"a", "b", "c", "d">>
  /\ DOMAIN scope = {"a", "b", "c"}
  /\ "evaluate" \in called
  /\ outcome.kind = "error"

\* The paths of solveSimpleEquation that have run, read off the helpers
\* called and the outcome: the simultaneous solver, the single-variable
\* solver, the equality checker (an evaluation outside both solvers), the
\* "multiple variables" error.
PathsRun ==
  (IF "solveSimultaneousEquations" \in called THEN {"simultaneous"} ELSE {})
    \cup (IF "solveNumerically" \in called THEN {"single"} ELSE {})
    \cup (IF "evaluate" \in called /\ "solveNumerically" \notin called
             /\ "solveSimultaneousEquations" \notin called
          THEN {"equality"} ELSE {})
    \cup (IF outcome.kind = "error" /\ Len(outcome.message) >= 2
             /\ outcome.message[2] = "Multiple variables found: "
          THEN {"multiple"} ELSE {})

\* C17: solveSimpleEquation has returned from an input that is a system, or a
\* single equation with one '=': a system went to the simultaneous solver; a
\* single equation went to the equality checker with no unknown, to the
\* single-variable solver with one, to the "multiple variables" error with
\* more; and no other path ran.
C17_Dispatch ==
  (Returned /\ called # {} /\ (SingleEquation => EqualsCount = 1)) =>
    PathsRun =
      IF ~SingleEquation THEN {"simultaneous"}
      ELSE IF Len(Unknowns(problemText)) = 0 THEN {"equality"}
      ELSE IF Len(Unknowns(problemText)) = 1 THEN {"single"}
      ELSE {"multiple"}

\* The run on which C17 fails: sqrt(x)=2 has one unknown and ends in the
\* "multiple variables" error, the single-variable solver is not called.
C17_Witness ==
  /\ pc = "done"
  /\ problemText = <<"s","q","r","t","(","x",")","=","2">>
  /\ Len(Unknowns(problemText)) = 1
  /\ PathsRun = {"multiple"}

\* The part of a text before its first '=': the whole text if it has none.
BeforeFirstEquals(s) ==
  LET at == {p \in 1..Len(s) : s[p] = "="}
  IN IF at = {} THEN s
     ELSE SubSeq(s, 1, (CHOOSE p \in at : \A q \in at : p <= q) - 1)

\* evaluateExpression has returned or thrown.
ExpressionReturned == pc = "done" /\ "evaluateExpression" \in called

\* C18: evaluateExpression drops its input from the first '=' on and
\* evaluates the rest; if that has a value it returns the record whose
\* problem is the cleaned expression, whose answer is the value as a string
\* and whose two steps are the cleaned expression, then the value; if not, it
\* fails with an error.
C18_StripEvaluateRecord ==
  LET cleaned == Trim(BeforeFirstEquals(problemText))
      result == Evaluate(ExplicitMultiplication(cleaned), <<>>)
  IN ExpressionReturned =>
       IF result.ok /\ result.val # Undefined
       THEN /\ outcome.kind = "record"
            /\ outcome.problem = cleaned
            /\ outcome.answer = NumberToString(result.val)
            /\ Len(outcome.steps) = 2
            /\ outcome.steps[1].expression = cleaned
            /\ outcome.steps[2].expression = NumberToString(result.val)
       ELSE outcome.kind = "error"

\* The run on which C18 fails: a line terminator follows the '=', nothing is
\* dropped, and the evaluator rejects 2+3=5 as an assignment to no symbol.
C18_Witness ==
  /\ ExpressionReturned
  /\ problemText = <<"2","+","3","=","5","\n">>
  /\ Trim(BeforeFirstEquals(problemText)) = <<"2","+","3">>
  /\ outcome.kind = "error"
  /\ outcome.message[1] = "Could not evaluate expression: "

\* evaluateExpression on texts in which no line terminator follows an '=':
\* the outcome is as C18 states it.
C18_SingleLine ==
  (\A p \in 1..Len(problemText) : problemText[p] \notin LineTerminators)
    => C18_StripEvaluateRecord

C18_SingleLineWitness ==
  /\ ExpressionReturned
  /\ problemText = <<"2","+","3","*","4","=","1","4">>
  /\ outcome.kind = "record"
  /\ outcome.problem = <<"2","+","3","*","4">>
  /\ outcome.answer = <<"1","4">>

\* A call has returned or thrown whose entry point and input are those of
\* the first call of the run.
FirstCallRepeated ==
  /\ pc = "done"
  /\ calls > 1
  /\ earlier # None
  /\ earlier.entry = entry
  /\ earlier.text = problemText

\* C19: a call with the entry point and the input of an earlier call has the
\* outcome of that call, record or failure, whatever calls ran in between.
C19_SameInputSameOutcome ==
  FirstCallRepeated => outcome = earlier.outcome

\* The run on which C19 fails: (-4)^0.5=0 is checked on the freshly loaded
\* module and again after a call of evaluateExpression; the first answer is
\* "True", the second "False".
C19_Witness ==
  /\ FirstCallRepeated
  /\ calls = 3
  /\ entry = "solveMathProblem"
  /\ problemText = <<"(","-","4",")","^","0",".","5","=","0">>
  /\ predictable
  /\ earlier.outcome.answer = <<"True">>
  /\ outcome.answer = <<"False">>

\* Calls that run with the same option of the evaluator have the same
\* outcome on the same input.
C19_SameOptionSameOutcome ==
  (FirstCallRepeated
        /\ (earlier.entry = "evaluateExpression"
              \/ ~Contains(earlier.text, "=")
              \/ \A p \in 1..Len(problemText) : problemText[p] # "^")) =>
       outcome = earlier.outcome

\* C20: no step of a call changes the configuration of the module's
\* evaluator: the option predictable keeps the value it had when the module
\* was loaded.
C20_ConfigurationUnchanged == [][predictable' = predictable]_vars

\* The run on which C20 fails: the first call of the module is
\* evaluateExpression("2+3*4"); it has returned its record and the option
\* predictable, false when the module was loaded, is true.
C20_Witness ==
  /\ pc = "done"
  /\ calls = 1
  /\ entry = "evaluateExpression"
  /\ problemText = <<"2","+","3","*","4">>
  /\ outcome.kind = "record"
  /\ outcome.answer = <<"1","4">>
  /\ predictable

\* The number of values of one axis of the grid (401 at the step of the
\* source).
AxisPoints == (GridMax - GridMin) * GridStepInv + 1

\* The number of steps a loop variable is away from the start of its axis.
AxisIndex(g) == (g.n * GridStepInv) \div g.d - GridMin * GridStepInv

\* A number of points the loops have tested for certain in the current call:
\* every finished pass of the x loop tested at least (AxisPoints - 1)^2
\* points, every finished pass of the y loop at least AxisPoints - 1 (rounding
\* may keep the last value of an axis out), every finished pass of the z loop
\* one.
PointsTested ==
  IF pc = "gridX" THEN AxisIndex(gx) * (AxisPoints - 1) * (AxisPoints - 1)
  ELSE IF pc = "gridY"
  THEN AxisIndex(gx) * (AxisPoints - 1) * (AxisPoints - 1)
         + AxisIndex(gy) * (AxisPoints - 1)
  ELSE AxisIndex(gx) * (AxisPoints - 1) * (AxisPoints - 1)
         + AxisIndex(gy) * (AxisPoints - 1)
         + AxisIndex(gz)

\* C21: for a system with two unknowns the simultaneous solver tests the
\* equations at no more than AxisPoints x AxisPoints points, one for each
\* pair of values of the first and the second unknown.
C21_TwoUnknownsPlane ==
  (pc \in {"gridX", "gridY", "gridZ"} /\ Len(variables) = 2) =>
    PointsTested <= AxisPoints * AxisPoints

\* The run on which C21 fails: x=y;x=y+1 has two unknowns and no solution;
\* the z loop has run for every pair, and when the x loop ends more points
\* than a plane holds have been tested.
C21_Witness ==
  /\ pc = "gridX"
  /\ problemText = <<"x","=","y",";","x","=","y","+","1">>
  /\ variables = <<"x", "y">>
  /\ Below(Num(GridMax, 1), gx)
  /\ PointsTested > AxisPoints * AxisPoints

\* With three unknowns the solver tests no more than AxisPoints^3 points.
C21_ThreeUnknownsSpace ==
  (pc \in {"gridX", "gridY", "gridZ"} /\ Len(variables) = 3) =>
    PointsTested <= AxisPoints * AxisPoints * AxisPoints

\* Single equations of the model whose only solutions are irrational: the
\* square roots of 2.
IrrationalOnly ==
  { <<"x","*","x","=","2">>,
    <<"0",".","0","0","0","0","0","1","*","x","*","x","=",
      "0",".","0","0","0","0","0","2">> }

\* C22: an equation whose only solutions are irrational is answered with the
\* record "Could not solve equation": no stage accepts a value and no
\* approximate value is returned.
C22_IrrationalNotFound ==
  (Searched /\ problemText \in IrrationalOnly) =>
    /\ stage = "none"
    /\ solutions = Null
    /\ outcome.kind = "record"
    /\ outcome.answer = <<"Could not solve equation">>

\* The run on which C22 fails: the sides of 0.000001*x*x=0.000002 differ by
\* 0.000007 at x = -3, the integer stage accepts -3 and the answer is x = -3.
C22_Witness ==
  /\ Searched
  /\ problemText = <<"0",".","0","0","0","0","0","1","*","x","*","x","=",
                     "0",".","0","0","0","0","0","2">>
  /\ stage = "integer"
  /\ solutions = Num(-3, 1)
  /\ ~SolvesAt(Num(-4, 1))
  /\ outcome.answer = <<"x", " = ", "-", "3">>

\* x*x=2 itself is answered with the record "Could not solve equation".
C22_SquareRootOfTwo ==
  (Searched /\ problemText = <<"x","*","x","=","2">>) =>
    /\ stage = "none"
    /\ outcome.answer = <<"Could not solve equation">>

\* A step of the call in progress: any step but the caller's next call.
CallStep ==
  \/ SolveSimpleEquation
  \/ IntegerStage
  \/ RationalStage
  \/ DecimalStage
  \/ SolveSimpleEquationReturn
  \/ SolveSimultaneousEquations
  \/ GridX
  \/ GridY
  \/ GridZ
  \/ EvaluateExpression
  \/ EvaluateExpressionReturn

\* The code is synchronous: a call that has been made runs on until it
\* returns or throws.  This is weak fairness of CallStep, WF_vars(CallStep),
\* written out: a step of the call is possible exactly while pc # "done",
\* and every step changes pc or a loop variable.
FairSpec ==
  Spec /\ ((<>[](pc # "done")) => []<><<CallStep>>_vars)

\* The trials each stage of solveNumerically has made when its loop stands
\* at the present values, and the most points the grid loops can have tested.
IntegerTrials == i - IntMin
RationalTrials == 2 * ((n - 1) * (DenominatorMax - DenominatorMin + 1)
                         + (d - DenominatorMin))
DecimalTrials == (x.n * DecimalStepInv) \div x.d - DecimalMin * DecimalStepInv
PointsTestedAtMost ==
  AxisIndex(gx) * AxisPoints * AxisPoints
    + (IF pc = "gridX" THEN 0
       ELSE AxisIndex(gy) * AxisPoints
              + (IF pc = "gridY" THEN 0 ELSE AxisIndex(gz)))

\* No stage makes more trials than its loop has values.
TrialsBounded ==
  /\ pc = "int" => IntegerTrials <= 2001
  /\ pc = "rat" => RationalTrials <= 760
  /\ pc = "dec" => DecimalTrials <= 2001
  /\ pc \in {"gridX", "gridY", "gridZ"} =>
       PointsTestedAtMost <= AxisPoints * AxisPoints * AxisPoints

\* The single-variable search ends with a value or without one; the grid
\* search of a well-formed system of at most three unknowns ends with a
\* binding or the no-solution error.
EndsDecided ==
  /\ pc = "returned" => (solutions = Null \/ IsNum(solutions))
  /\ (pc = "done" /\ stage = "grid" /\ SystemWellFormed
        /\ Len(SystemUnknowns) <= 3) =>
       \/ outcome.kind = "record"
       \/ outcome.kind = "error" /\ outcome.message = NoSolutionMessage

\* The grid search has tested a point and ended.
GridSearchEnded ==
  /\ pc = "done"
  /\ "solveSimultaneousEquations" \in called
  /\ "evaluate" \in called

\* C23: both searches always end: the single-variable solver after at most
\* 2001 integer trials, 760 rational trials and 2001 decimal trials, with a
\* value or without one; the simultaneous solver after at most AxisPoints^3
\* grid points (401^3 at the step of the source), with a binding or the
\* no-solution error.  This is the last part, for every system whose search
\* has begun.
C23_GridEndsDecided ==
  GridSearchEnded =>
    \/ outcome.kind = "record"
    \/ outcome.kind = "error" /\ outcome.message = NoSolutionMessage

\* The run on which C23 fails: the search of a system of four unknowns ends
\* at its first point, with the error of the evaluator.
C23_Witness ==
  /\ GridSearchEnded
  /\ problemText = <<"a","+","b","+","c","+","d","=","0",";","a","=","b">>
  /\ gx = Num(GridMin, 1) /\ gy = Num(GridMin, 1) /\ gz = Num(GridMin, 1)
  /\ outcome.kind = "error" /\ outcome.message # NoSolutionMessage

\* The rest of C23 holds under FairSpec: every call ends, within the bounds
\* on the trials, and the searches of systems of at most three unknowns end
\* decided.
C23_SearchesTerminate ==
  /\ [](TrialsBounded /\ EndsDecided)
  /\ (pc = "call") ~> (pc = "done")

\* Both searches ran to the end of their loops.
C23_LoopsExhausted ==
  /\ Searched
  /\ problemText = <<"x","*","x","=","2">>
  /\ i = IntMax + 1 /\ n = NumeratorMax + 1
  /\ DecimalTrials = 2001
  /\ solutions = Null

\* The values the first two stages try.
IntegerCandidate(v) == \E k \in (-1000)..1000 : v = Num(k, 1)
RationalCandidate(v) ==
  \E c \in (1..20) \X (2..20) \X {1, -1} : v = Num(c[3] * c[1], c[2])

\* C25: the stages return disjoint kinds of value: a value returned by the
\* rational stage is no integer of [-1000, 1000], and the trial value the
\* decimal stage accepts (before rounding) is neither such an integer nor
\* +-n/d with 1 <= n <= 20, 2 <= d <= 20.
C25_StagesDisjoint ==
  Searched =>
    /\ stage = "rational" =>
         (solutions = trial /\ ~IntegerCandidate(solutions))
    /\ stage = "decimal" =>
         (~IntegerCandidate(trial) /\ ~RationalCandidate(trial))

\* The decimal stage accepted -9.98 after it had passed -10 and -9.99, and
\* the earlier stages had tried every integer and every n/d.
C25_Witness ==
  /\ Searched
  /\ problemText = <<"x","*","5","0","=","-","4","9","9">>
  /\ stage = "decimal"
  /\ i = IntMax + 1 /\ n = NumeratorMax + 1
  /\ trial.n = -499 /\ trial.d = 50
  /\ solutions = Num(-998, 100)

\* The rational stage returned 7/2 after it had passed 2/2, 3/3, 4/2, 6/2.
C25_RationalWitness ==
  /\ Searched
  /\ problemText = <<"x","+","x","=","7">>
  /\ stage = "rational"
  /\ n = 7 /\ d = 2
  /\ solutions = Num(7, 2)

(***************************************************************************)
(* openaiService.ts: solveComplexMathProblem                               *)
(***************************************************************************)
REQUESTS_PER_MINUTE == 20
MONTHLY_QUOTA == 20

\* The calls of the API a run of the model follows.
MaxApiCalls == MONTHLY_QUOTA + MaxRequests + 1

\* mathService.ts at rest while another component is watched.
MathIdle ==
  /\ entry = "none" /\ problemText = <<>>
  /\ predictable = FALSE
  /\ calls = MaxCalls
  /\ earlier = None
  /\ pc = "done"
  /\ leftSide = <<>> /\ rightSide = <<>> /\ variable = ""
  /\ i = 0 /\ n = 0 /\ d = 0 /\ x = Num(0, 1)
  /\ solutions = Null
  /\ equations = <<>> /\ variables = <<>>
  /\ gx = Num(0, 1) /\ gy = Num(0, 1) /\ gz = Num(0, 1)
  /\ scope = <<>>
  /\ outcome = None
  /\ stage = "none"
  /\ trial = None
  /\ called = {}

\* The module as loaded: usageCount is the count of the tracker file, which
\* updateUsage wrote after each of this month's calls, or 0.
QuotaInit ==
  /\ MathIdle
  /\ usageCount \in 0..MONTHLY_QUOTA
  /\ apiCalls = usageCount
  /\ requestsThisMinute = 0
  /\ minuteElapsed = FALSE
  /\ request = [r \in 1..MaxRequests |-> NotCalled]
  /\ HomeMounted
  /\ PipelineIdle

\* The records solveComplexMathProblem returns.
QuotaExceeded ==
  [kind |-> "record", problem |-> "Monthly quota exceeded",
   explanation |-> "Due to API costs, we limit complex problem solving"]
Solved ==
  [kind |-> "record", problem |-> "<problem>", explanation |-> "<steps>"]

\* Mutant of CatchBlock: the error leaves solveComplexMathProblem.
CatchRethrow(message) ==
  [kind |-> "rejected", problem |-> "", explanation |-> message]

\* catch (error) { return {problem: "Error processing complex problem", ...} }
CatchBlock(message) ==
  [kind |-> "record", problem |-> "Error processing complex problem",
   explanation |-> message]

Returns(r, record) ==
  request' = [request EXCEPT ![r] = [pc |-> "idle", outcome |-> record]]

\* solveComplexMathProblem(imageBuffer), up to its await: the quota check,
\* checkRateLimit() and the call of the API.
SolveComplexMathProblem(r) ==
  /\ request[r].pc = "idle"
  /\ UNCHANGED <<single, grid, problemText, pc, outcome, stage, trial, called,
                 session, home, pipeline>>
  /\ IF usageCount >= MONTHLY_QUOTA
     THEN /\ Returns(r, QuotaExceeded)
          /\ UNCHANGED <<usageCount, requestsThisMinute, minuteElapsed,
                         apiCalls>>
     ELSE LET counted == IF minuteElapsed THEN 0 ELSE requestsThisMinute IN
          /\ minuteElapsed' = FALSE
          /\ UNCHANGED usageCount
          /\ IF counted >= REQUESTS_PER_MINUTE
             THEN /\ requestsThisMinute' = counted
                  /\ Returns(r, CatchBlock("Rate limit exceeded"))
                  /\ UNCHANGED apiCalls
             ELSE /\ apiCalls < MaxApiCalls
                  /\ requestsThisMinute' = counted + 1
                  /\ apiCalls' = apiCalls + 1
                  /\ request' = [request EXCEPT ![r].pc = "awaiting"]

\* The API answered: updateUsage(), then the answer is read, which throws
\* when it holds no choice.
ApiResolves(r) ==
  /\ request[r].pc = "awaiting"
  /\ usageCount' = usageCount + 1
  /\ \E wellFormed \in BOOLEAN :
       Returns(r, IF wellFormed THEN Solved ELSE CatchBlock("TypeError"))
  /\ UNCHANGED <<single, grid, problemText, pc, outcome, stage, trial, called,
                 home, pipeline, session, requestsThisMinute, minuteElapsed, apiCalls>>

\* The API call failed: the await throws into the catch block.
ApiRejects(r) ==
  /\ request[r].pc = "awaiting"
  /\ Returns(r, CatchBlock("API error"))
  /\ UNCHANGED <<single, grid, problemText, pc, outcome, stage, trial, called,
                 home, pipeline, session, usageCount, requestsThisMinute, minuteElapsed,
                 apiCalls>>

\* A minute has passed since lastResetTime.
MinutePasses ==
  /\ ~minuteElapsed
  /\ minuteElapsed' = TRUE
  /\ UNCHANGED <<single, grid, problemText, pc, outcome, stage, trial, called,
                 home, pipeline, session, usageCount, requestsThisMinute, apiCalls, request>>

QuotaNext ==
  \/ \E r \in 1..MaxRequests : SolveComplexMathProblem(r)
  \/ \E r \in 1..MaxRequests : ApiResolves(r)
  \/ \E r \in 1..MaxRequests : ApiRejects(r)
  \/ MinutePasses

QuotaSpec == QuotaInit /\ [][QuotaNext]_vars

\* C24: the monthly quota is never exceeded: the API calls of this month, and
\* the calls counted by usageCount, are at most MONTHLY_QUOTA, also with
\* several calls in flight.
C24_QuotaNeverExceeded ==
  /\ apiCalls <= MONTHLY_QUOTA
  /\ usageCount <= MONTHLY_QUOTA

\* The run on which C24 fails: two calls passed the quota check when one
\* call was left, both called the API and both were counted.
C24_Witness ==
  /\ usageCount = MONTHLY_QUOTA + 1
  /\ apiCalls = usageCount
  /\ \A r \in 1..MaxRequests : request[r].outcome = Solved

\* What holds of C24: a call made once usageCount has reached the quota
\* returns the "Monthly quota exceeded" record and calls no API.
C24_RefusedAtQuota ==
  [][\A r \in 1..MaxRequests :
       (usageCount >= MONTHLY_QUOTA /\ request[r].pc = "idle"
          /\ request'[r] # request[r]) =>
         (request'[r] = [pc |-> "idle", outcome |-> QuotaExceeded]
            /\ apiCalls' = apiCalls)]_vars

MaxUrls == 6

Files == {"a.png", "b.jpg", "c.png"}
Responses == {"x = 3", "14"}
\* error.message of the rejected request ('' when there is none)
Messages == {"400: No image file provided", "500: Unable to solve", ""}

\* Mutant of Missing: the guard of handleProcessImage lets null through.
MissingNever(file) == file # file

\* if (!selectedFile)
Missing(file) == file = NoFile

Rest == <<single, grid, problemText, pc, outcome, stage, trial, called,
          session, quota, pipeline>>

\* ImageUploader is rendered, with the handlers it is given.
UploaderShown == homeStage \in {"upload", "preview"}

\* handleFileSelect(file)
HandleFileSelect ==
  /\ UploaderShown
  /\ urls < MaxUrls
  /\ \E file \in Files : selectedFile' = file
  /\ urls' = urls + 1
  /\ previewUrl' = <<"blob:", urls + 1>>
  /\ homeStage' = "preview"
  /\ UNCHANGED <<Rest, error, homeResult, mutation>>

\* handleProcessImage()
HandleProcessImage ==
  /\ UploaderShown
  /\ IF Missing(selectedFile)
     THEN UNCHANGED vars
     ELSE /\ homeStage' = "processing"
          /\ mutation' = "pending"
          /\ UNCHANGED <<Rest, selectedFile, previewUrl, error, homeResult,
                         urls>>

\* handleCancel()
HandleCancel ==
  /\ UploaderShown
  /\ selectedFile' = NoFile
  /\ previewUrl' = NoUrl
  /\ homeStage' = "upload"
  /\ UNCHANGED <<Rest, error, homeResult, mutation, urls>>

\* processMutation: onSuccess(data)
OnSuccess ==
  /\ mutation = "pending"
  /\ mutation' = "idle"
  /\ \E data \in Responses : homeResult' = data
  /\ homeStage' = "result"
  /\ UNCHANGED <<Rest, selectedFile, previewUrl, error, urls>>

\* processMutation: onError(error)
OnError ==
  /\ mutation = "pending"
  /\ mutation' = "idle"
  /\ \E message \in Messages :
       error' = IF message # "" THEN message
                ELSE "Failed to process the image. Please try again with a clearer image."
  /\ homeStage' = "error"
  /\ UNCHANGED <<Rest, selectedFile, previewUrl, homeResult, urls>>

\* handleSolveNew(), on the button of ResultDisplay
HandleSolveNew ==
  /\ homeStage = "result" /\ homeResult # NoResult
  /\ selectedFile' = NoFile
  /\ previewUrl' = NoUrl
  /\ homeResult' = NoResult
  /\ homeStage' = "upload"
  /\ UNCHANGED <<Rest, error, mutation, urls>>

\* handleTryAgain(), on the button of ErrorDisplay
HandleTryAgain ==
  /\ homeStage = "error"
  /\ error' = ""
  /\ homeStage' = "upload"
  /\ UNCHANGED <<Rest, selectedFile, previewUrl, homeResult, mutation, urls>>

HomeInit == MathIdle /\ QuotaIdle /\ HomeMounted /\ PipelineIdle

HomeNext ==
  \/ HandleFileSelect
  \/ HandleProcessImage
  \/ HandleCancel
  \/ OnSuccess
  \/ OnError
  \/ HandleSolveNew
  \/ HandleTryAgain

HomeSpec == HomeInit /\ [][HomeNext]_vars

\* C30: the stage is 'preview' or 'processing' only while a file is
\* selected, it is 'result' only while there is a result, and no step taken
\* while no file is selected starts the processing.
C30_StagesHoldTheirData ==
  /\ [](/\ homeStage \in {"preview", "processing"} => selectedFile # NoFile
        /\ homeStage = "result" => homeResult # NoResult)
  /\ [][selectedFile = NoFile =>
          /\ homeStage' = "processing" => homeStage = "processing"
          /\ mutation' = mutation]_vars

\* A second problem is being processed after the first was solved and
\* handleSolveNew cleared the file and the result.
C30_Witness ==
  /\ homeStage = "processing"
  /\ selectedFile = "b.jpg"
  /\ previewUrl = <<"blob:", 2>>
  /\ homeResult = NoResult
  /\ mutation = "pending"

(***************************************************************************)
(* Texts as the classifiers read them                                      *)
(***************************************************************************)
\* The characters of a string.
Chars(str) == [k \in 1..Len(str) |-> SubSeq(str, k, k)]

\* String.prototype.includes
Includes(s, sub) ==
  \E p \in 0..(Len(s) - Len(sub)) : SubSeq(s, p + 1, p + Len(sub)) = sub

UpperCase == Chars("ABCDEFGHIJKLMNOPQRSTUVWXYZ")
LowerCase == Chars("abcdefghijklmnopqrstuvwxyz")

\* String.prototype.toLowerCase
ToLowerCase(s) ==
  [k \in 1..Len(s) |->
     IF \E j \in 1..26 : UpperCase[j] = s[k]
     THEN LowerCase[CHOOSE j \in 1..26 : UpperCase[j] = s[k]]
     ELSE s[k]]

\* How many of the keywords the (lower-case) text includes.
MatchCount(lower, keywords) ==
  Cardinality({k \in 1..Len(keywords) : Includes(lower, Chars(keywords[k]))})

(***************************************************************************)
(* wordProblemService.ts                                                   *)
(***************************************************************************)
\* CATEGORY_KEYWORDS (lines 23-54), in the order of its keys.
CATEGORY_KEYWORDS ==
  << [category |-> "probability",
      keywords |-> <<"probability", "chance", "odds", "die", "dice", "coin",
                     "random", "likelihood">>],
     [category |-> "statistics",
      keywords |-> <<"statistics", "mean", "median", "mode", "average",
                     "standard deviation", "variance">>],
     [category |-> "algebra",
      keywords |-> <<"solve for", "find x", "quadratic", "equation",
                     "inequality", "factor">>],
     [category |-> "geometry",
      keywords |-> <<"triangle", "rectangle", "circle", "square",
                     "parallelogram", "area", "perimeter", "volume">>],
     [category |-> "combinatorics",
      keywords |-> <<"combination", "permutation", "factorial", "choose",
                     "arrange">>],
     [category |-> "calculus",
      keywords |-> <<"derivative", "integral", "limit", "differentiate",
                     "integrate">>],
     [category |-> "trigonometry",
      keywords |-> <<"sine", "cosine", "tangent", "sin", "cos", "tan",
                     "angle">>],
     [category |-> "linear_algebra",
      keywords |-> <<"matrix", "vector", "determinant", "eigenvalue">>],
     [category |-> "number_theory",
      keywords |-> <<"prime", "factor", "divisor", "remainder", "modulo">>],
     [category |-> "arithmetic",
      keywords |-> <<"percentage", "percent", "ratio", "proportion", "rate",
                     "increase", "decrease">>] >>

\* wordProblemIndicators (lines 75-78)
wordProblemIndicators ==
  <<"what is", "calculate", "find", "determine", "evaluate", "solve",
    "how many", "how much", "if", "when", "which", "who">>

\* The matches of the text in each category.
CategoryMatches(text) ==
  [c \in 1..Len(CATEGORY_KEYWORDS) |->
     MatchCount(ToLowerCase(text), CATEGORY_KEYWORDS[c].keywords)]

isWordProblem(text) ==
  \/ \E c \in 1..Len(CATEGORY_KEYWORDS) : CategoryMatches(text)[c] > 0
  \/ MatchCount(ToLowerCase(text), wordProblemIndicators) > 0

\* The category with the most matches, the first of them when several have
\* as many; 'arithmetic' when nothing matches.
identifyProblemCategory(text) ==
  LET categoryMatches == CategoryMatches(text)
      best == {c \in DOMAIN categoryMatches :
                 /\ categoryMatches[c] > 0
                 /\ \A o \in DOMAIN categoryMatches :
                      /\ categoryMatches[o] <= categoryMatches[c]
                      /\ o < c => categoryMatches[o] < categoryMatches[c]}
  IN IF best = {} THEN "arithmetic"
     ELSE CATEGORY_KEYWORDS[CHOOSE c \in best : TRUE].category

\* No solver: null.
NullSolver == "null"

\* Mutant of getGeneralSolverForCategory: no solver for the other categories.
getSolverOrNull(category) ==
  CASE category = "probability" -> "probabilitySolver"
    [] category = "statistics" -> "solveStatisticsProblem"
    [] category = "algebra" -> "solveAlgebraProblem"
    [] category = "trigonometry" -> "solveTrigonometryProblem"
    [] category = "calculus" -> "solveCalculusProblem"
    [] OTHER -> NullSolver

\* The solver of a category, by its name (probabilitySolver and defaultSolver
\* are the two function literals).
getGeneralSolverForCategory(category) ==
  CASE category = "probability" -> "probabilitySolver"
    [] category = "statistics" -> "solveStatisticsProblem"
    [] category = "algebra" -> "solveAlgebraProblem"
    [] category = "trigonometry" -> "solveTrigonometryProblem"
    [] category = "calculus" -> "solveCalculusProblem"
    [] OTHER -> "defaultSolver"

getWordProblemSolver(text) ==
  IF MatchCount(ToLowerCase(text), <<"six-sided die", "probability", "five">>) = 3
  THEN "solveDiceProbabilityProblem"
  ELSE getGeneralSolverForCategory(identifyProblemCategory(text))

(***************************************************************************)
(* geometryService.ts, openaiService.ts: the classifiers                   *)
(***************************************************************************)
isRectangleParallelogramProblem(text) ==
  \/ MatchCount(ToLowerCase(text),
                <<"rectangle wxyz", "parallelogram pqrs",
                  "perpendicular to sr", "length of st">>) >= 2
  \/ MatchCount(text, <<"WXYZ", "PQRS">>) = 2
  \/ MatchCount(text, <<"rectangle", "parallelogram">>) = 2

isComplexMathProblem(text) ==
  \/ Len(text) > 100
  \/ MatchCount(ToLowerCase(text),
                <<"rectangle", "triangle", "circle", "diagram", "figure",
                  "parallelogram", "perpendicular", "segment", "prove",
                  "find the value">>) > 0
  \/ Len(Split(text, {"\n"})) > 4

(***************************************************************************)
(* mathService.ts: cleanupExtractedText                                    *)
(***************************************************************************)
IsDigit(c) == c \in Digits

NotWhitespace(c) == c \notin Whitespace

\* The length of the run of digits that starts at position p.
RECURSIVE DigitRun(_, _)
DigitRun(s, p) ==
  IF p <= Len(s) /\ IsDigit(s[p]) THEN 1 + DigitRun(s, p + 1) ELSE 0

\* Lines 68-75, which replace single characters: the OCR mistakes for an
\* exponent, the superscript, the signs; whitespace is removed.  (The
\* superscript four and the long dashes of lines 70 and 74 are not among the
\* characters of the texts below.)
ReplaceCharacters(s) ==
  LET kept == SelectSeq(s, NotWhitespace)
  IN [k \in 1..Len(kept) |->
        CASE kept[k] \in {"®", ">", "*", "d"} -> "2"
          [] kept[k] = "³" -> "3"
          [] kept[k] = "×" -> "*"
          [] kept[k] = "÷" -> "/"
          [] OTHER -> kept[k]]

\* .replace(/\*(\d+)\*([a-zA-Z])/g, '^$1*$2')
RECURSIVE FixStarPattern(_)
FixStarPattern(s) ==
  IF s = <<>> THEN <<>>
  ELSE LET k == DigitRun(s, 2) IN
       IF /\ Head(s) = "*" /\ k >= 1 /\ Len(s) >= k + 3
          /\ s[k + 2] = "*" /\ IsLetter(s[k + 3])
       THEN <<"^">> \o SubSeq(s, 2, k + 1) \o <<"*", s[k + 3]>>
              \o FixStarPattern(SubSeq(s, k + 4, Len(s)))
       ELSE <<Head(s)>> \o FixStarPattern(Tail(s))

\* .replace(/([a-zA-Z])t/g, '$1^2')
RECURSIVE LetterT(_)
LetterT(s) ==
  IF s = <<>> THEN <<>>
  ELSE IF IsLetter(Head(s)) /\ Len(s) >= 2 /\ s[2] = "t"
  THEN <<Head(s), "^", "2">> \o LetterT(SubSeq(s, 3, Len(s)))
  ELSE <<Head(s)>> \o LetterT(Tail(s))

\* .replace(/([a-zA-Z])(\d+)/g, '$1^$2')
RECURSIVE LetterDigits(_)
LetterDigits(s) ==
  IF s = <<>> THEN <<>>
  ELSE IF IsLetter(Head(s)) /\ DigitRun(s, 2) >= 1
  THEN <<Head(s), "^">> \o SubSeq(s, 2, 1 + DigitRun(s, 2))
         \o LetterDigits(SubSeq(s, 2 + DigitRun(s, 2), Len(s)))
  ELSE <<Head(s)>> \o LetterDigits(Tail(s))

\* .replace(/(\d)([a-zA-Z])/g, '$1*$2')
RECURSIVE DigitLetter(_)
DigitLetter(s) ==
  IF s = <<>> THEN <<>>
  ELSE IF IsDigit(Head(s)) /\ Len(s) >= 2 /\ IsLetter(s[2])
  THEN <<Head(s), "*", s[2]>> \o DigitLetter(SubSeq(s, 3, Len(s)))
  ELSE <<Head(s)>> \o DigitLetter(Tail(s))

\* .replace(/\^(\d+)\^(\d+)/g, '^$2')
RECURSIVE DoubleExponent(_)
DoubleExponent(s) ==
  IF s = <<>> THEN <<>>
  ELSE LET k == DigitRun(s, 2)
           m == DigitRun(s, k + 3)
       IN IF /\ Head(s) = "^" /\ k >= 1 /\ Len(s) >= k + 3
             /\ s[k + 2] = "^" /\ m >= 1
          THEN <<"^">> \o SubSeq(s, k + 3, k + 2 + m)
                 \o DoubleExponent(SubSeq(s, k + 3 + m, Len(s)))
          ELSE <<Head(s)>> \o DoubleExponent(Tail(s))

\* .replace(/([a-zA-Z])\*(\d+)/g, '$1^$2')
RECURSIVE LetterStarDigits(_)
LetterStarDigits(s) ==
  IF s = <<>> THEN <<>>
  ELSE LET k == DigitRun(s, 3) IN
       IF IsLetter(Head(s)) /\ Len(s) >= 3 /\ s[2] = "*" /\ k >= 1
       THEN <<Head(s), "^">> \o SubSeq(s, 3, 2 + k)
              \o LetterStarDigits(SubSeq(s, 3 + k, Len(s)))
       ELSE <<Head(s)>> \o LetterStarDigits(Tail(s))

\* .replace(/O/g, '0').replace(/l/g, '1')
ReplaceLookalikes(s) ==
  [k \in 1..Len(s) |->
     IF s[k] = "O" THEN "0" ELSE IF s[k] = "l" THEN "1" ELSE s[k]]

\* Mutant of EnsureEquation: the line is left as it is.
EnsureNothing(cleaned) == cleaned

\* if (!cleaned.includes('=')) cleaned += '=0' (and once more with '=')
EnsureEquation(cleaned) ==
  LET completed == IF Contains(cleaned, "=") THEN cleaned
                   ELSE cleaned \o <<"=", "0">>
  IN IF Contains(completed, "=") THEN completed ELSE completed \o <<"=">>

\* lines.map(line => ...): one line cleaned.
CleanLine(line) ==
  EnsureEquation(
    ReplaceLookalikes(LetterStarDigits(DoubleExponent(DigitLetter(
      LetterDigits(LetterT(FixStarPattern(ReplaceCharacters(line)))))))))

\* text.split('\n').map(line => line.trim()).filter(line => line), cleaned
ProcessedLines(text) ==
  LET pieces == Split(text, {"\n"})
      lines == SelectSeq([p \in 1..Len(pieces) |-> Trim(pieces[p])], NonEmpty)
  IN [p \in 1..Len(lines) |-> CleanLine(lines[p])]

cleanupExtractedText(text) ==
  IF isWordProblem(text) THEN text
  ELSE Join(ProcessedLines(text), <<"\n">>)

(***************************************************************************)
(* mathService.ts: solveMathProblem's choice of a solver                   *)
(***************************************************************************)
\* String.prototype.startsWith
StartsWith(s, prefix) ==
  Len(s) >= Len(prefix) /\ SubSeq(s, 1, Len(prefix)) = prefix

GEOMETRY_PROBLEM == Chars("GEOMETRY_PROBLEM:")

\* const isEquation = problemText.includes('=')
SimpleSolver(text) ==
  IF Contains(text, "=") THEN "solveSimpleEquation"
  ELSE "evaluateExpression"

\* The function solveMathProblem answers with, by its name; the record
\* built in place for a complex problem without its image is named by its
\* problem field.
solveMathProblem(text, imageBuffer) ==
  IF isRectangleParallelogramProblem(text)
  THEN "solveRectangleParallelogramProblem"
  ELSE IF isWordProblem(text)
  THEN IF getWordProblemSolver(text) # NullSolver
       THEN getWordProblemSolver(text)
       ELSE SimpleSolver(text)
  ELSE IF StartsWith(text, GEOMETRY_PROBLEM) \/ isComplexMathProblem(text)
  THEN IF imageBuffer
       THEN "solveComplexMathProblem"
       ELSE LET problemDescription ==
                  IF StartsWith(text, GEOMETRY_PROBLEM)
                  THEN SubSeq(text, Len(GEOMETRY_PROBLEM) + 1, Len(text))
                  ELSE text
            IN IF isRectangleParallelogramProblem(problemDescription)
               THEN "solveRectangleParallelogramProblem"
               ELSE "Complex math problem detected"
  ELSE SimpleSolver(text)

\* The functions that throw on some texts and return a record on others;
\* the others return a record on every text (solveComplexMathProblem: C27).
MayThrow == {"solveSimpleEquation", "evaluateExpression"}

(***************************************************************************)
(* routes.ts: POST /api/solve                                              *)
(***************************************************************************)
\* What the OCR worker reads from the images of a run.
OcrTexts ==
  { Chars(t) : t \in
      { "2+3*4", "5x+10=25", "(7-2)^2", "3×4", "x®+1", "x³-4", "7÷2",
        "find x", "sin(x)=1", "what is 2+2", "mean of 1, 2",
        "solve for x: 2x=4", "x+y=10\nx-y=2", "3 + 4\n\n 5", "lO", "xt",
        "x2", "2x", "^2^3", "×2×x", "x×2", "i f", "", "  ", " \n ",
        "A rolls a six-sided die five times probability",
        "rectangle WXYZ and PQRS", "WXYZ PQRS", "Rectangle and Parallelogram",
        "prove it", "1\n2\n3\n4\n5", "factor", "derivative of x" } }

\* The texts solveMathProblem is called with directly.
DirectTexts ==
  OcrTexts \cup
  { Chars(t) : t \in
      { "GEOMETRY_PROBLEM:abc", "GEOMETRY_PROBLEM:WXYZ PQRS", "5*x+10=25",
        "2+324=0", "x=1\ny=2",
        "1+1+1+1+1+1+1+1+1+1+1+1+1+1+1+1+1+1+1+1+1+1+1+1+1+1+1+1+1+1+1+1+1+1+1+1+1+1+1+1+1+1+1+1+1+1+1+1+1+1+1" } }

\* Mutant of saveMathProblem: the problem is stored twice.
saveTwice(stored) == stored + 2

\* MemStorage.saveMathProblem: one more problem is stored.
saveMathProblem(stored) == stored + 1

Others == <<single, grid, problemText, pc, outcome, stage, trial, called,
            session, quota, home>>

\* res.status(code).json(...)
Respond(code) == rpc' = "responded" /\ status' = code

\* solveMathProblem is called; it chooses its solver before it yields.
CallSolveMathProblem(text, imageBuffer) ==
  /\ argument' = [problemText |-> text, imageBuffer |-> imageBuffer]
  /\ reached' = solveMathProblem(text, imageBuffer)
  /\ rpc' = "solving"

\* The outer catch block: the last fallbacks, or 500.
LastChance(text) ==
  IF isRectangleParallelogramProblem(text) THEN 200
  ELSE IF isWordProblem(text) /\ getWordProblemSolver(text) # NullSolver
  THEN 200
  ELSE 500

\* The handler up to its first await: without a file 400, else the OCR.
Post(file) ==
  /\ rpc = "idle"
  /\ via' = "route"
  /\ IF file THEN rpc' = "ocr" /\ UNCHANGED status ELSE Respond(400)
  /\ UNCHANGED <<ocrText, extractedText, argument, reached, solution, saves>>
  /\ UNCHANGED Others

\* extractMathProblem returns the text cleaned up, or throws; the handler
\* goes on to its next await: 400 for a blank text, the shortcut for the
\* rectangle problem, else the call of solveMathProblem.
ExtractMathProblem ==
  /\ rpc = "ocr"
  /\ \/ \E text \in OcrTexts :
          LET cleanedText == cleanupExtractedText(text) IN
          /\ ocrText' = text
          /\ extractedText' = cleanedText
          /\ IF Trim(cleanedText) = <<>>
             THEN Respond(400) /\ UNCHANGED <<argument, reached>>
             ELSE IF isRectangleParallelogramProblem(cleanedText)
             THEN Respond(200) /\ UNCHANGED <<argument, reached>>
             ELSE CallSolveMathProblem(cleanedText, TRUE) /\ UNCHANGED status
     \/ /\ Respond(LastChance(<<>>))
        /\ UNCHANGED <<ocrText, extractedText, argument, reached>>
  /\ UNCHANGED <<via, solution, saves>>
  /\ UNCHANGED Others

\* solveMathProblem returns a record or throws.  In the handler the record
\* is saved; an error goes to the inner catch block, which answers the
\* rectangle problem when the error is one of the API's quota, and to the
\* outer one.
SolveMathProblemReturns ==
  /\ rpc = "solving"
  /\ \E returned \in (IF reached \in MayThrow THEN BOOLEAN ELSE {TRUE}) :
       /\ solution' = IF returned THEN "record" ELSE "threw"
       /\ IF via = "call"
          THEN rpc' = "returned" /\ UNCHANGED <<saves, status>>
          ELSE IF returned
          THEN /\ saves' = saveMathProblem(saves)
               /\ rpc' = "saving"
               /\ UNCHANGED status
          ELSE /\ \E quotaError \in BOOLEAN :
                    Respond(IF /\ quotaError
                               /\ isRectangleParallelogramProblem(extractedText)
                            THEN 200
                            ELSE LastChance(extractedText))
               /\ UNCHANGED saves
  /\ UNCHANGED <<via, ocrText, extractedText, argument, reached>>
  /\ UNCHANGED Others

\* storage.saveMathProblem has resolved: mathResponseSchema.parse(solution)
\* takes the record, and 200 is sent.
SaveMathProblemReturns ==
  /\ rpc = "saving"
  /\ Respond(200)
  /\ UNCHANGED <<via, ocrText, extractedText, argument, reached, solution,
                 saves>>
  /\ UNCHANGED Others

\* A direct call of solveMathProblem, with or without an image.
Call(text, imageBuffer) ==
  /\ rpc = "idle"
  /\ via' = "call"
  /\ CallSolveMathProblem(text, imageBuffer)
  /\ UNCHANGED <<ocrText, extractedText, solution, saves, status>>
  /\ UNCHANGED Others

PipelineInit == MathIdle /\ QuotaIdle /\ HomeMounted /\ PipelineIdle

PipelineNext ==
  \/ \E file \in BOOLEAN : Post(file)
  \/ ExtractMathProblem
  \/ SolveMathProblemReturns
  \/ SaveMathProblemReturns
  \/ \E text \in DirectTexts, imageBuffer \in BOOLEAN : Call(text, imageBuffer)

PipelineSpec == PipelineInit /\ [][PipelineNext]_vars

WordProblemSolvers ==
  {"solveDiceProbabilityProblem", "probabilitySolver",
   "solveStatisticsProblem", "solveAlgebraProblem",
   "solveTrigonometryProblem", "solveCalculusProblem", "defaultSolver"}

C26_RectangleFirst ==
  /\ rpc = "returned"
  /\ argument.problemText = Chars("rectangle WXYZ and PQRS")
  /\ isWordProblem(argument.problemText)
  /\ isComplexMathProblem(argument.problemText)
  /\ reached = "solveRectangleParallelogramProblem"

\* C28: storage.saveMathProblem is called at most once in a request, only
\* when solveMathProblem has returned a record and before any response; a
\* request answered with 400, answered by the rectangle shortcut, or whose
\* solve threw saves nothing, and a request that saved is answered with 200.
C28_SavedOnceAfterSolve ==
  /\ [](saves <= 1)
  /\ [][saves' # saves =>
          /\ via = "route" /\ rpc = "solving"
          /\ saves = 0 /\ saves' = 1
          /\ solution' = "record"
          /\ status = 0 /\ status' = 0]_vars
  /\ []((status = 400 \/ solution = "threw" \/ via = "call"
           \/ (status = 200 /\ reached = "none")) => saves = 0)
  /\ []((rpc = "responded" /\ saves = 1) => status = 200)

\* A request whose equation was solved, saved and answered.
C28_Witness ==
  /\ via = "route" /\ rpc = "responded" /\ status = 200
  /\ extractedText = Chars("5*x+10=25")
  /\ reached = "solveSimpleEquation"
  /\ solution = "record"
  /\ saves = 1

\* A request whose solve threw, answered with 500 and nothing saved.
C28_NothingSaved ==
  /\ via = "route" /\ rpc = "responded" /\ status = 500
  /\ solution = "threw"
  /\ saves = 0

\* The rectangle shortcut: 200 without a call of solveMathProblem or a save.
C28_Shortcut ==
  /\ via = "route" /\ rpc = "responded" /\ status = 200
  /\ isRectangleParallelogramProblem(extractedText)
  /\ reached = "none"
  /\ saves = 0

\* The lines of a text, as split('\n') gives them.
Lines(text) == Split(text, {"\n"})

C29_DirectExpression ==
  /\ via = "call"
  /\ argument.problemText = Chars("2+3*4")
  /\ reached = "evaluateExpression"

====
